---- MODULE Spec2Model ----
(***************************************************************************)
(* The authenticated request pipeline of the KlikkFlow Python SDK:         *)
(* KlikkFlowClient._request / close (sdks/python/reporunner/client.py),    *)
(* AuthManager (auth.py) and create_http_exception (exceptions.py).        *)
(*                                                                         *)
(* Every coroutine call is a frame on the calling task's stack; a task     *)
(* runs without interruption until it awaits the transport, a sleep or a   *)
(* teardown (asyncio's cooperative scheduling), and only then may another  *)
(* task run.  Time is counted in seconds.                                  *)
(***************************************************************************)
EXTENDS Integers, Sequences, FiniteSets, TLC

\* ---------------------------------------------------------------- bounds
MinStatus == 100         \* the lowest HTTP status code
MaxStatus == 599         \* the highest HTTP status code
PageSize == 20           \* items on a full page of a listing
MaxPolls == 5            \* polls of one wait that are followed
RecursionLimit == 6      \* frames a task may nest before RecursionError
MaxOps == 3              \* top-level calls made in one behaviour
MaxTicks == 2            \* times the clock advances in one behaviour
TickSeconds == 60        \* seconds by which one clock step advances

Tasks == {"t1", "t2"}     \* the asyncio tasks an application may run
NoTask == "none"

\* ------------------------------------------------------- optional values
None == "None"                       \* Python's None, for optional strings
Truthy(s) == s # None /\ s # ""      \* bool(s) of an Optional[str]
NoTime == <<>>                       \* an unset Optional[datetime]
EmptyDict == <<>>                    \* {} (and headers=None: both are falsy)

\* dict.update: the keys of e override those of d
DictUpdate(d, e) ==
  [k \in (DOMAIN d) \cup (DOMAIN e) |-> IF k \in DOMAIN e THEN e[k] ELSE d[k]]

\* ---------------------------------------------------------------- config
\* AuthConfig.validate_auth_method: at least one of the three fields is truthy
validate_auth_method(c) ==
  Truthy(c.api_key) \/ Truthy(c.access_token) \/ Truthy(c.username)

AuthConfig(k, a, r, u, p) ==
  [api_key |-> k, access_token |-> a, username |-> u,
   refresh_token |-> r, password |-> p]

\* the AuthConfig values tried: each method alone, a user name without its
\* password, and the combinations in which two methods compete
AuthConfigs ==
  { c \in { AuthConfig("k1", None, None, None, None),
            AuthConfig(None, "s1", None, None, None),
            AuthConfig(None, "s1", "r0", None, None),
            AuthConfig(None, None, None, "u", "p"),
            AuthConfig(None, None, None, "u", None),
            AuthConfig("k1", None, None, "u", "p"),
            AuthConfig(None, "s1", None, "u", "p"),
            AuthConfig(None, None, None, None, None) } :
      validate_auth_method(c) }

\* ClientConfig.max_retries and retry_delay (neither is validated) and the
\* local time zone of the process: the combinations tried
Environments ==
  { [max_retries |-> -1, retry_delay |-> 1, utc_offset |-> 0],
    [max_retries |-> 0, retry_delay |-> 1, utc_offset |-> 0],
    [max_retries |-> 2, retry_delay |-> 1, utc_offset |-> 0],
    [max_retries |-> 2, retry_delay |-> 3, utc_offset |-> 3600] }

\* ------------------------------------------------------------ exceptions
Unset == <<>>                        \* a field that is None
\* RateLimitError.retry_after, limit, remaining, reset_time (None elsewhere)
NoRate == [retry_after |-> Unset, limit |-> Unset, remaining |-> Unset,
           reset_time |-> Unset]
NoErr == [type |-> "None", msg |-> "", status |-> 0, rate |-> NoRate]
Err(type, msg) == [type |-> type, msg |-> msg, status |-> 0, rate |-> NoRate]
\* status: status_code, which _handle_error_response also puts in context
HttpErr(type, status) ==
  [type |-> type, msg |-> "http", status |-> status, rate |-> NoRate]

\* HTTP_EXCEPTION_MAP.get(status_code, NetworkError)
HTTP_EXCEPTION_MAP(status) ==
  CASE status = 400 -> "ValidationError"
    [] status = 401 -> "AuthenticationError"
    [] status = 403 -> "AuthorizationError"
    [] status = 404 -> "KlikkFlowError"
    [] status = 429 -> "RateLimitError"
    [] status = 500 -> "KlikkFlowError"
    [] status \in {502, 503, 504} -> "NetworkError"
    [] OTHER -> "NetworkError"

\* the response argument: None, or an httpx.Response with its headers
\* (header names in lower case, values as strings of characters)
NoResponse == [present |-> FALSE, headers |-> EmptyDict]
HttpResponse(headers) == [present |-> TRUE, headers |-> headers]

Digits == {"0", "1", "2", "3", "4", "5", "6", "7", "8", "9"}
DigitValue(c) ==
  CASE c = "0" -> 0 [] c = "1" -> 1 [] c = "2" -> 2 [] c = "3" -> 3
    [] c = "4" -> 4 [] c = "5" -> 5 [] c = "6" -> 6 [] c = "7" -> 7
    [] c = "8" -> 8 [] c = "9" -> 9
RECURSIVE DecimalValue(_)
DecimalValue(s) ==
  IF s = <<>> THEN 0
  ELSE 10 * DecimalValue(SubSeq(s, 1, Len(s) - 1)) + DigitValue(s[Len(s)])

\* a conversion that reads anything it cannot parse as zero
int_lenient(s) ==
  [raised |-> FALSE,
   value |-> IF s # <<>> /\ \A i \in 1..Len(s) : s[i] \in Digits
               THEN DecimalValue(s) ELSE 0]

\* int(str): an optional sign and at least one decimal digit, else ValueError
int(s) ==
  LET signed == s # <<>> /\ s[1] \in {"+", "-"}
      digits == IF signed THEN Tail(s) ELSE s
  IN IF digits = <<>> \/ \E i \in 1..Len(digits) : digits[i] \notin Digits
       THEN [raised |-> TRUE, value |-> 0]
       ELSE [raised |-> FALSE,
             value |-> IF signed /\ s[1] = "-" THEN 0 - DecimalValue(digits)
                                              ELSE DecimalValue(digits)]

\* lines 387-409, once per header: absent or ValueError leave the field None
ParsedHeader(headers, hname) ==
  IF hname \in DOMAIN headers
    THEN IF int(headers[hname]).raised THEN Unset
                                       ELSE <<int(headers[hname]).value>>
    ELSE Unset

\* a table lookup whose default is the generic error
create_http_exception_generic_default(status_code, response) ==
  HttpErr(IF status_code \in {400, 401, 403, 404, 429, 500, 502, 503, 504}
            THEN HTTP_EXCEPTION_MAP(status_code) ELSE "KlikkFlowError",
          status_code)

create_http_exception(status_code, response) ==
  LET exception_class == HTTP_EXCEPTION_MAP(status_code)
  IN IF exception_class = "RateLimitError" /\ response.present
       THEN [type |-> exception_class, msg |-> "http", status |-> status_code,
             rate |-> [retry_after |-> ParsedHeader(response.headers, "retry-after"),
                       limit |-> ParsedHeader(response.headers, "x-ratelimit-limit"),
                       remaining |-> ParsedHeader(response.headers, "x-ratelimit-remaining"),
                       reset_time |-> ParsedHeader(response.headers, "x-ratelimit-reset")]]
       ELSE HttpErr(exception_class, status_code)

\* a handler that also catches the SDK's own NetworkError
IsRequestErrorOrNetworkError(e) == e.type \in {"RequestError", "NetworkError"}

\* the exception classes a handler "except httpx.RequestError" catches
IsRequestError(e) == e.type = "RequestError"

\* a handler that catches the SDK's network errors only
IsNetworkErrorOnly(e) == e.type \in {"NetworkError", "RateLimitError"}

\* the exception classes a handler "except Exception" catches
IsException(e) == e.type # "None"

\* ------------------------------------------------------------- responses
Statuses == {200, 204, 302, 400, 401, 403, 404, 429, 500, 502, 503, 504}
\* a success test that knows 200 only
is_success_200_only(status) == status = 200

\* httpx.Response.is_success (client.py line 255)
is_success(status) == status >= 200 /\ status <= 299

Absent == <<>>      \* a key the JSON body does not have
PlainBody == [access_token |-> None, refresh_token |-> None, json_ok |-> TRUE,
              expires_in |-> Absent, expires_at |-> Absent]
Malformed == [PlainBody EXCEPT !.json_ok = FALSE]
TokenBody(a, r, i, x) ==
  [access_token |-> a, refresh_token |-> r, json_ok |-> TRUE,
   expires_in |-> i, expires_at |-> x]
\* the bodies the login and refresh endpoints answer with: expires_in of 4
\* and 6 minutes, expires_at 10 minutes after the epoch of the model
TokenBodies ==
  { TokenBody("tA", "rA", <<240>>, Absent),
    TokenBody("tA", "rA", <<360>>, Absent),
    TokenBody("tA", "rA", Absent, <<600>>),
    TokenBody("tA", "rA", <<240>>, <<600>>),
    TokenBody("tA", "rA", Absent, Absent),
    TokenBody("tA", None, <<240>>, Absent) }
Bodies(path) ==
  IF path \in {"/auth/login", "/auth/refresh"}
    THEN TokenBodies \cup {PlainBody, Malformed}
    ELSE {PlainBody}

NoResp == [status |-> 0, body |-> PlainBody]

\* ---------------------------------------------------------------- frames
NoRet == [kind |-> "none", hdrs |-> EmptyDict, resp |-> NoResp, err |-> NoErr]
RetVoid == [NoRet EXCEPT !.kind = "return"]
RetHeaders(h) == [NoRet EXCEPT !.kind = "return", !.hdrs = h]
RetResp(r) == [NoRet EXCEPT !.kind = "return", !.resp = r]
Raise(e) == [NoRet EXCEPT !.kind = "raise", !.err = e]

Frame(fn) ==
  [path |-> "", hdrs |-> EmptyDict, fn |-> fn, pc |-> "start",
   request_headers |-> EmptyDict, auth_headers |-> EmptyDict, attempt |-> 0,
   last_exception |-> NoErr]
RequestFrame(path, hdrs) ==
  [path |-> path, hdrs |-> hdrs, fn |-> "_request", pc |-> "start",
   request_headers |-> EmptyDict, auth_headers |-> EmptyDict, attempt |-> 0,
   last_exception |-> NoErr]

VARIABLES
  cfg,            \* AuthManager.config (AuthConfig)
  max_retries,    \* ClientConfig.max_retries
  retry_delay,    \* ClientConfig.retry_delay
  utc_offset,     \* local time minus UTC, seconds (datetime.fromtimestamp)
  closed,         \* KlikkFlowClient._closed
  http_closed,    \* _http_client.aclose() has run
  ws_closed,      \* websocket.close() has run
  tasks,          \* the tasks this run of the application has
  tok,            \* Token State: _access_token, _refresh_token, _token_expires_at
  now,            \* datetime.utcnow(), seconds
  stack,          \* per task: the frames of its coroutine calls
  ret,            \* per task: what the last finished call returned or raised
  op,             \* per task: the top-level call it is making or made last,
                  \*   with Token State and the clock as they were when it began
  calls,          \* per task: transport calls issued by its current top-level call
  sleeps,         \* per task: asyncio.sleep delays of its current top-level call
  auths,          \* per task: get_auth_headers invocations of its current call
  refreshes,      \* per task: _refresh_access_token invocations of its current call
  cur,            \* the task that holds the event loop, or NoTask
  nops,           \* top-level calls made so far
  nticks,         \* clock steps so far
  http_in,        \* the arguments of a create_http_exception call
  http_exc,       \* what that call returned, NoErr before it
  _websocket_connection,  \* ExecutionManager._websocket_connection
  emitted,        \* the emit calls made on that connection, in order
  mgr_in,         \* a WorkflowManager call: method, arguments, the answer
  mgr_out,        \* what the call gave its caller, NoMgrOut before it
  instr,          \* the KlikkFlowInstrumentor: tracked list, calls made, log
  wait,           \* a wait for an execution: clock, polls made, outcome
  logged_out      \* history: the access token that was live when the last
                  \*   logout returned, None once a login has stored a token

vars == <<cfg, max_retries, retry_delay, utc_offset, closed, http_closed,
          ws_closed, tok, now, stack, ret, op, calls, sleeps, auths,
          refreshes, cur, nops, nticks, tasks, http_in, http_exc,
          _websocket_connection, emitted, logged_out, mgr_in, mgr_out, instr, wait>>
exc_vars == <<http_in, http_exc>>
stream_vars == <<_websocket_connection, emitted>>
settings == <<cfg, max_retries, retry_delay, utc_offset, tasks, exc_vars,
              stream_vars, mgr_in, mgr_out, instr, wait>>
config_vars == <<settings, logged_out>>

\* a text that is absent (None, or a key a body does not have)
NoText == <<None>>

\* no exception
NoApiErr == [type |-> "None", message |-> <<>>, error_code |-> NoText,
             workflow_id |-> NoText]
\* no WorkflowManager call made
NoMgrOut == [value |-> None, kind |-> "none", err |-> NoApiErr, requests |-> <<>>]

Answer(status, json_ok, success, message, error_code, error_message, text, items, total_items) ==
  [status |-> status, json_ok |-> json_ok, message |-> message,
   error_code |-> error_code, success |-> success,
   error_message |-> error_message, text |-> text,
   items |-> items, total_items |-> total_items]
NoArgs == [page |-> 0, per_page |-> 0, active |-> None,
           sort_by |-> <<>>, sort_order |-> <<>>]
NoMgrIn == [workflow_id |-> NoText, method |-> "none", args |-> NoArgs,
            answer |-> Answer(0, FALSE, FALSE, NoText, NoText, NoText, <<>>, <<>>, 0)]
\* no KlikkFlowInstrumentor made
NoInstr == [raised |-> FALSE, libraries |-> <<>>, _instrumentors |-> <<>>,
            tracked |-> <<>>, failing |-> {}, uninstrumented |-> <<>>,
            warnings |-> <<>>, phase |-> "none"]
\* no wait for an execution begun; a timeout is <<>> for None and <<n>> for
\* n seconds
NoWait == [kind |-> "none", err |-> "None", fn |-> "none", phase |-> "none",
           timeout |-> <<>>, start_time |-> 0, time |-> 0, polls |-> 0,
           last |-> "none"]

\* the specifications of the client make no manager call, instrument nothing
\* and wait for no execution
SideIdle ==
  mgr_in = NoMgrIn /\ mgr_out = NoMgrOut /\ instr = NoInstr /\ wait = NoWait

NoTokens == [access |-> None, refresh |-> None, expires |-> NoTime]
NoOp == [path |-> "", hdrs |-> EmptyDict, tok |-> NoTokens, now |-> 0, name |-> "none"]
NoHttpIn == [status_code |-> 0, response |-> NoResponse]

Init ==
  /\ cfg \in AuthConfigs
  /\ \E e \in Environments :
       /\ max_retries = e.max_retries
       /\ retry_delay = e.retry_delay
       /\ utc_offset = e.utc_offset
  /\ tasks = {"t1"}
  /\ closed = FALSE /\ http_closed = FALSE /\ ws_closed = FALSE
  /\ tok = NoTokens
  /\ now = 0
  /\ stack = [t \in Tasks |-> <<>>]
  /\ ret = [t \in Tasks |-> NoRet]
  /\ op = [t \in Tasks |-> NoOp]
  /\ calls = [t \in Tasks |-> <<>>]
  /\ sleeps = [t \in Tasks |-> <<>>]
  /\ auths = [t \in Tasks |-> 0]
  /\ refreshes = [t \in Tasks |-> 0]
  /\ cur = NoTask
  /\ nops = 0 /\ nticks = 0
  /\ http_in = NoHttpIn /\ http_exc = NoErr
  /\ _websocket_connection = None /\ emitted = <<>>
  /\ logged_out = None
  /\ SideIdle

\* ----------------------------------------------------------- call stacks
Depth(t) == Len(stack[t])
Top(t) == stack[t][Depth(t)]
Running(t, fn, pc) ==
  /\ cur = t /\ Depth(t) > 0 /\ Top(t).fn = fn /\ Top(t).pc = pc
SetTop(s, f) == [s EXCEPT ![Len(s)] = f]
Pop(s) == SubSeq(s, 1, Len(s) - 1)

\* the running frame moves on without calling or returning
Goto(t, f) ==
  /\ stack' = [stack EXCEPT ![t] = SetTop(@, f)]
  /\ ret' = [ret EXCEPT ![t] = NoRet]
  /\ UNCHANGED cur

\* the running frame awaits something the event loop must deliver
Suspend(t, f) ==
  /\ stack' = [stack EXCEPT ![t] = SetTop(@, f)]
  /\ ret' = [ret EXCEPT ![t] = NoRet]
  /\ cur' = NoTask

\* "await callee(...)": the caller f waits at its next pc for the callee's
\* outcome; past the interpreter's recursion limit the call itself raises
Call(t, f, callee) ==
  /\ IF Depth(t) >= RecursionLimit
       THEN /\ stack' = [stack EXCEPT ![t] = SetTop(@, f)]
            /\ ret' = [ret EXCEPT ![t] =
                         Raise(Err("RecursionError", "maximum recursion depth exceeded"))]
       ELSE /\ stack' = [stack EXCEPT ![t] = Append(SetTop(@, f), callee)]
            /\ ret' = [ret EXCEPT ![t] = NoRet]
  /\ UNCHANGED cur

\* the running frame returns or raises r to its caller; the task's top-level
\* call ends when its last frame does
Finish(t, r) ==
  /\ stack' = [stack EXCEPT ![t] = Pop(@)]
  /\ ret' = [ret EXCEPT ![t] = r]
  /\ cur' = IF Depth(t) = 1 THEN NoTask ELSE t

Idle(t) == t \in tasks /\ cur = NoTask /\ stack[t] = <<>>

\* a task starts a top-level call
Begin(t, name, frame) ==
  /\ Idle(t)
  /\ nops < MaxOps
  /\ nops' = nops + 1
  /\ cur' = t
  /\ stack' = [stack EXCEPT ![t] = <<frame>>]
  /\ ret' = [ret EXCEPT ![t] = NoRet]
  /\ op' = [op EXCEPT ![t] = [path |-> frame.path, hdrs |-> frame.hdrs,
                               tok |-> tok, now |-> now, name |-> name]]
  /\ calls' = [calls EXCEPT ![t] = <<>>]
  /\ sleeps' = [sleeps EXCEPT ![t] = <<>>]
  /\ auths' = [auths EXCEPT ![t] = 0]
  /\ refreshes' = [refreshes EXCEPT ![t] = 0]
  /\ UNCHANGED <<config_vars, closed, http_closed, ws_closed, tok, now, nticks>>

client_state == <<closed, http_closed, ws_closed>>
logs == <<calls, sleeps, auths, refreshes>>
counters == <<nops, nticks>>

\* ------------------------------------------------ client.py: the headers
UserAgent == <<"klikkflow-python-sdk">>
DefaultHeaderKeys == {"Accept", "Content-Type", "User-Agent"}
_get_default_headers ==
  [k \in DefaultHeaderKeys |->
     CASE k = "Accept" -> <<"application/json">>
       [] k = "Content-Type" -> <<"application/json">>
       [] k = "User-Agent" -> UserAgent]

Dict1(k, v) == [x \in {k} |-> v]
\* the header dictionaries a caller passes to get/post/put/patch/delete
CallerHeaders ==
  { EmptyDict,
    DictUpdate(Dict1("Authorization", <<"Bearer", "evil">>),
               DictUpdate(Dict1("Accept", <<"text/plain">>), Dict1("X-Trace", <<"1">>))) }

\* lines 229-231: the defaults, then the caller's headers when truthy
ComposeHeaders(hdrs) ==
  IF hdrs # EmptyDict THEN DictUpdate(_get_default_headers, hdrs)
                      ELSE _get_default_headers
\* the auth headers applied first, so that the composed headers override them
AddAuthHeadersFirst(request_headers, auth_headers) ==
  DictUpdate(auth_headers, request_headers)

\* line 235: request_headers.update(auth_headers)
AddAuthHeaders(request_headers, auth_headers) ==
  DictUpdate(request_headers, auth_headers)

\* --------------------------------------------------- auth.py: the headers
Bearer(token) == Dict1("Authorization", <<"Bearer", token>>)
b64encode(s) == <<"b64">> \o s
Basic(username, password) ==
  Dict1("Authorization", <<"Basic">> \o b64encode(<<username, ":", password>>))

\* a refresh test with a strict comparison
_token_needs_refresh_strict ==
  IF ~Truthy(tok.access) \/ tok.expires = NoTime
    THEN FALSE
    ELSE now + 300 > tok.expires[1]

\* AuthManager._token_needs_refresh
buffer_time == 300
\* a refresh test that takes a missing token or expiry for an expired one
_token_needs_refresh_unguarded ==
  IF ~Truthy(tok.access) \/ tok.expires = NoTime
    THEN TRUE
    ELSE now + buffer_time >= tok.expires[1]

_token_needs_refresh ==
  IF ~Truthy(tok.access) \/ tok.expires = NoTime
    THEN FALSE
    ELSE now + buffer_time >= tok.expires[1]

\* a token choice that reads the static configuration first
CurrentTokenStaticFirst ==
  IF Truthy(cfg.access_token) THEN cfg.access_token ELSE tok.access

\* "self._access_token or self.config.access_token"
CurrentToken == IF Truthy(tok.access) THEN tok.access ELSE cfg.access_token
\* ------------------------------------------------- client.py: _request
\* a request path that never looks at the closed flag
ClosedCheckDropped == FALSE

\* line 225-226
ClosedCheck == closed

\* a backoff whose exponent is one too large
BackoffOffByOne(attempt) == retry_delay * (2 ^ (attempt + 1))

\* line 269: the backoff before the retry that follows a failed attempt
Backoff(attempt) == retry_delay * (2 ^ attempt)

\* a retry that composes its headers anew and leaves the auth headers out
AttemptHeadersRebuilt(f) ==
  IF f.attempt = 0 THEN f.request_headers ELSE ComposeHeaders(f.hdrs)

\* line 250: the headers an attempt of frame f sends
AttemptHeaders(f) == f.request_headers

\* what the transport did with a call
Pending == [status |-> 0, kind |-> "pending"]
Failed == [status |-> 0, kind |-> "RequestError"]
Answered(status) == [status |-> status, kind |-> "response"]
SetOutcome(log, o) == [log EXCEPT ![Len(log)].outcome = o]

\* line 242: attempt in range(max_retries + 1)
InRange(attempt) == attempt >= 0 /\ attempt < max_retries + 1

\* lines 242-252 and 274-277: the next pass of the attempt loop of frame f.
\* Inside the range the transport call is issued and awaited (a closed
\* httpx client refuses it with RuntimeError); past it the fallback raises.
\* an HTTP client that still sends after aclose()
HttpClientClosedIgnored == FALSE

\* httpx.AsyncClient refuses to send once aclose() has run (line 245)
HttpClientClosed == http_closed

NextAttempt(t, f) ==
  IF InRange(f.attempt)
    THEN IF HttpClientClosed
           THEN /\ Finish(t, Raise(Err("RuntimeError", "Cannot send a request, as the client has been closed")))
                /\ UNCHANGED calls
           ELSE /\ calls' = [calls EXCEPT ![t] =
                      Append(@, [headers |-> AttemptHeaders(f), path |-> f.path,
                                 attempt |-> f.attempt, outcome |-> Pending])]
                /\ stack' = [stack EXCEPT ![t] = SetTop(@, [f EXCEPT !.pc = "http"])]
                /\ ret' = [ret EXCEPT ![t] = NoRet]
                /\ cur' = NoTask
    ELSE /\ Finish(t, Raise(IF f.last_exception # NoErr
                              THEN f.last_exception
                              ELSE Err("NetworkError", "Request failed after all retries")))
         /\ UNCHANGED calls

\* a caller invokes get/post/put/patch/delete, which forward to _request
CallRequest(t) ==
  \E hdrs \in CallerHeaders :
    Begin(t, "_request", RequestFrame("/workflows", hdrs))

\* lines 225-234: the closed check, the header composition, the auth call
RequestStart(t) ==
  /\ Running(t, "_request", "start")
  /\ IF ClosedCheck
       THEN Finish(t, Raise(Err("KlikkFlowError", "Client has been closed")))
       ELSE Call(t, [Top(t) EXCEPT !.pc = "auth",
                                   !.request_headers = ComposeHeaders(Top(t).hdrs)],
                 Frame("get_auth_headers"))
  /\ UNCHANGED <<config_vars, client_state, tok, now, op, logs, counters>>

\* lines 234-252: the auth headers are merged in and the first attempt made
RequestAuth(t) ==
  /\ Running(t, "_request", "auth")
  /\ IF ret[t].kind = "raise"
       THEN Finish(t, ret[t]) /\ UNCHANGED calls
       ELSE NextAttempt(t, [Top(t) EXCEPT
                              !.auth_headers = ret[t].hdrs,
                              !.request_headers = AddAuthHeaders(@, ret[t].hdrs),
                              !.attempt = 0, !.last_exception = NoErr])
  /\ UNCHANGED <<config_vars, client_state, tok, now, op, sleeps, auths, refreshes, counters>>

AwaitingTransport(t) ==
  /\ cur = NoTask /\ Depth(t) > 0
  /\ Top(t).fn = "_request" /\ Top(t).pc = "http"

\* lines 243-272: an exception e raised inside the try block of frame f.
\* httpx.RequestError is caught: the failure is recorded, and the loop
\* sleeps and goes on while attempts remain; anything else propagates.
RaisedInTry(t, f, e) ==
  IF IsRequestError(e)
    THEN LET last == Err("NetworkError", "Request failed")
         IN IF f.attempt < max_retries
              THEN /\ sleeps' = [sleeps EXCEPT ![t] = Append(@, Backoff(f.attempt))]
                   /\ Suspend(t, [f EXCEPT !.pc = "sleep", !.last_exception = last])
              ELSE /\ Finish(t, Raise(last))
                   /\ UNCHANGED sleeps
    ELSE /\ Finish(t, Raise(e))
         /\ UNCHANGED sleeps

\* lines 254-259 and 279-307: the transport delivers a response; a 2xx one
\* is returned, any other raises what create_http_exception builds
TransportResponds(t) ==
  /\ AwaitingTransport(t)
  /\ \E status \in Statuses :
     \E body \in (IF is_success(status) THEN Bodies(Top(t).path) ELSE {PlainBody}) :
       /\ IF is_success(status)
            THEN /\ Finish(t, RetResp([status |-> status, body |-> body]))
                 /\ UNCHANGED sleeps
            ELSE RaisedInTry(t, Top(t),
                             create_http_exception(status, HttpResponse(EmptyDict)))
       /\ calls' = [calls EXCEPT ![t] = SetOutcome(@, Answered(status))]
  /\ UNCHANGED <<config_vars, client_state, tok, now, op, auths, refreshes, counters>>

\* lines 244 and 261: the transport raises httpx.RequestError
TransportFails(t) ==
  /\ AwaitingTransport(t)
  /\ RaisedInTry(t, Top(t), Err("RequestError", "transport"))
  /\ calls' = [calls EXCEPT ![t] = SetOutcome(@, Failed)]
  /\ UNCHANGED <<config_vars, client_state, tok, now, op, auths, refreshes, counters>>

\* lines 269-270 and 242: the sleep ends and the loop takes its next pass
SleepEnds(t) ==
  /\ cur = NoTask /\ Depth(t) > 0
  /\ Top(t).fn = "_request" /\ Top(t).pc = "sleep"
  /\ NextAttempt(t, [Top(t) EXCEPT !.attempt = @ + 1])
  /\ UNCHANGED <<config_vars, client_state, tok, now, op, sleeps, auths, refreshes, counters>>
\* ---------------------------------------------- auth.py: get_auth_headers
\* a resolution that tries the basic credentials before the access token
AuthMethodBasicFirst ==
  IF Truthy(cfg.api_key) THEN "api_key"
  ELSE IF Truthy(cfg.username) /\ Truthy(cfg.password) THEN "basic"
  ELSE IF Truthy(cfg.access_token) \/ Truthy(tok.access) THEN "access_token"
  ELSE "none"

\* the credential get_auth_headers settles on (lines 59, 64, 76, 83)
AuthMethod ==
  IF Truthy(cfg.api_key) THEN "api_key"
  ELSE IF Truthy(cfg.access_token) \/ Truthy(tok.access) THEN "access_token"
  ELSE IF Truthy(cfg.username) /\ Truthy(cfg.password) THEN "basic"
  ELSE "none"

\* a refresh that never checks for its refresh token
HasRefreshTokenUnchecked == TRUE

\* line 145: "if not self._refresh_token"
HasRefreshToken == Truthy(tok.refresh)

CallGetAuthHeaders(t) == Begin(t, "get_auth_headers", Frame("get_auth_headers"))

\* lines 56-83
GetAuthHeadersStart(t) ==
  /\ Running(t, "get_auth_headers", "start")
  /\ auths' = [auths EXCEPT ![t] = @ + 1]
  /\ CASE AuthMethod = "api_key" ->
            Finish(t, RetHeaders(Bearer(cfg.api_key)))
       [] AuthMethod = "access_token" ->
            IF _token_needs_refresh
              THEN Call(t, [Top(t) EXCEPT !.pc = "refresh"],
                        Frame("_refresh_access_token"))
              ELSE Finish(t, RetHeaders(Bearer(CurrentToken)))
       [] AuthMethod = "basic" ->
            Finish(t, RetHeaders(Basic(cfg.username, cfg.password)))
       [] OTHER ->
            Finish(t, Raise(Err("AuthenticationError",
                                "No valid authentication method configured")))
  /\ UNCHANGED <<config_vars, client_state, tok, now, op, calls, sleeps, refreshes, counters>>

\* lines 69-73: back from _refresh_access_token
GetAuthHeadersRefreshed(t) ==
  /\ Running(t, "get_auth_headers", "refresh")
  /\ IF ret[t].kind = "raise"
       THEN Finish(t, ret[t])
       ELSE Finish(t, RetHeaders(Bearer(tok.access)))
  /\ UNCHANGED <<config_vars, client_state, tok, now, op, logs, counters>>

\* --------------------------------------- auth.py: _refresh_access_token
\* datetime.fromtimestamp: a naive local time, compared with utcnow()
fromtimestamp(ts) == ts + utc_offset

\* an expiry that reads the absolute timestamp first
NewExpiryAbsoluteFirst(body) ==
  IF body.expires_at # Absent THEN <<fromtimestamp(body.expires_at[1])>>
  ELSE IF body.expires_in # Absent THEN <<now + body.expires_in[1]>>
  ELSE tok.expires

\* lines 120-125 and 161-166: the expiry a token response sets
NewExpiry(body) ==
  IF body.expires_in # Absent THEN <<now + body.expires_in[1]>>
  ELSE IF body.expires_at # Absent THEN <<fromtimestamp(body.expires_at[1])>>
  ELSE tok.expires

\* lines 115-125 and 156-166: Token State after a response with access_token
StoreTokens(body) ==
  [access |-> body.access_token,
   refresh |-> IF body.refresh_token # None THEN body.refresh_token ELSE tok.refresh,
   expires |-> NewExpiry(body)]

\* lines 145-152
RefreshStart(t) ==
  /\ Running(t, "_refresh_access_token", "start")
  /\ refreshes' = [refreshes EXCEPT ![t] = @ + 1]
  /\ IF ~HasRefreshToken
       THEN Finish(t, Raise(Err("AuthenticationError", "No refresh token available")))
       ELSE Call(t, [Top(t) EXCEPT !.pc = "post"],
                 RequestFrame("/auth/refresh", EmptyDict))
  /\ UNCHANGED <<config_vars, client_state, tok, now, op, calls, sleeps, auths, counters>>

\* lines 154-169: back from client.post; any Exception becomes
\* AuthenticationError, a missing access_token key included
RefreshResponse(t) ==
  /\ Running(t, "_refresh_access_token", "post")
  /\ LET body == ret[t].resp.body
     IN IF \/ ret[t].kind = "raise" /\ IsException(ret[t].err)
           \/ ~body.json_ok
           \/ body.access_token = None
          THEN /\ Finish(t, Raise(Err("AuthenticationError", "Failed to refresh token")))
               /\ UNCHANGED tok
          ELSE /\ tok' = StoreTokens(body)
               /\ Finish(t, RetVoid)
  /\ UNCHANGED <<config_vars, client_state, now, op, logs, counters>>

\* ---------------------------------------------------- auth.py: authenticate
CallAuthenticate(t) == Begin(t, "authenticate", Frame("authenticate"))

\* lines 95-100: the login or the key validation is awaited and returned
AuthenticateStart(t) ==
  /\ Running(t, "authenticate", "start")
  /\ IF Truthy(cfg.username) /\ Truthy(cfg.password)
       THEN Goto(t, Frame("_authenticate_with_credentials"))
       ELSE IF Truthy(cfg.api_key)
         THEN Goto(t, Frame("_validate_api_key"))
         ELSE Finish(t, Raise(Err("AuthenticationError",
                                  "No authentication method available")))
  /\ UNCHANGED <<config_vars, client_state, tok, now, op, logs, counters>>

\* lines 104-110
LoginStart(t) ==
  /\ Running(t, "_authenticate_with_credentials", "start")
  /\ Call(t, [Top(t) EXCEPT !.pc = "post"], RequestFrame("/auth/login", EmptyDict))
  /\ UNCHANGED <<config_vars, client_state, tok, now, op, logs, counters>>

\* lines 112-127
LoginResponse(t) ==
  /\ Running(t, "_authenticate_with_credentials", "post")
  /\ LET body == ret[t].resp.body
     IN IF ret[t].kind = "raise"
          THEN Finish(t, ret[t]) /\ UNCHANGED tok
          ELSE IF ~body.json_ok
            THEN Finish(t, Raise(Err("JSONDecodeError", "json"))) /\ UNCHANGED tok
            ELSE /\ tok' = IF body.access_token # None THEN StoreTokens(body) ELSE tok
                 /\ Finish(t, RetResp(ret[t].resp))
  /\ logged_out' = IF tok'.access # tok.access THEN None ELSE logged_out
  /\ UNCHANGED <<settings, client_state, now, op, logs, counters>>

\* line 131
ValidateStart(t) ==
  /\ Running(t, "_validate_api_key", "start")
  /\ Call(t, [Top(t) EXCEPT !.pc = "get"], RequestFrame("/auth/validate", EmptyDict))
  /\ UNCHANGED <<config_vars, client_state, tok, now, op, logs, counters>>

\* line 132
ValidateResponse(t) ==
  /\ Running(t, "_validate_api_key", "get")
  /\ Finish(t, ret[t])
  /\ UNCHANGED <<config_vars, client_state, tok, now, op, logs, counters>>
\* ------------------------------------------------------- auth.py: logout
CallLogout(t) == Begin(t, "logout", Frame("logout"))

\* a logout that forgets the refresh token and the expiry only
ClearTokensKeepAccess(tk) == [tk EXCEPT !.refresh = None, !.expires = NoTime]

\* lines 186-188: the three fields of Token State are set to None
ClearTokens(tk) == NoTokens

\* lines 178-180 and 185-188: with a live token the remote invalidation is
\* awaited first; without one Token State is cleared at once
LogoutStart(t) ==
  /\ Running(t, "logout", "start")
  /\ IF Truthy(tok.access)
       THEN /\ Call(t, [Top(t) EXCEPT !.pc = "post"],
                    RequestFrame("/auth/logout", EmptyDict))
            /\ UNCHANGED <<tok, logged_out>>
       ELSE /\ tok' = ClearTokens(tok)
            /\ logged_out' = tok.access
            /\ Finish(t, RetVoid)
  /\ UNCHANGED <<settings, client_state, now, op, logs, counters>>

\* lines 181-188: back from client.post; "except Exception: pass", then the
\* three fields of Token State are set to None
LogoutResponse(t) ==
  /\ Running(t, "logout", "post")
  /\ IF ret[t].kind = "raise" /\ ~IsException(ret[t].err)
       THEN /\ Finish(t, ret[t])
            /\ UNCHANGED <<tok, logged_out>>
       ELSE /\ tok' = ClearTokens(tok)
            /\ logged_out' = tok.access
            /\ Finish(t, RetVoid)
  /\ UNCHANGED <<settings, client_state, now, op, logs, counters>>

\* ------------------------------- executions.py: stream_execution_updates
ExecutionIds == {"e1", "e2"}
StreamFrame(execution_id) ==
  [path |-> execution_id, hdrs |-> EmptyDict, fn |-> "stream_execution_updates",
   pc |-> "start", request_headers |-> EmptyDict, auth_headers |-> EmptyDict,
   attempt |-> 0, last_exception |-> NoErr]
\* the consumer asks the stream of an execution for its first event
CallStreamExecutionUpdates(t) ==
  \E execution_id \in ExecutionIds :
    Begin(t, "stream_execution_updates", StreamFrame(execution_id))

\* lines 381-385: the body is "pass", the connection stays what it was
_connect_websocket(connection) == connection
\* lines 387-393: every message of the placeholder stream is {}
_websocket_message_stream == EmptyDict
\* message.get("executionId")
MessageExecutionId(message) ==
  IF "executionId" \in DOMAIN message THEN message["executionId"] ELSE None
Emit(event, execution_id) ==
  [type |-> "execution", executionId |-> execution_id, event |-> event]

\* lines 288-312.  start: connect when there is no connection, then emit
\* "subscribe" on self._websocket_connection, which raises AttributeError
\* when that is still None.  listen: the next message of the stream; one of
\* the execution is validated (the {} of message.get("data", {}) fails
\* validation), which leaves through the finally block and its unsubscribe;
\* any other message is skipped and the stream waits again.
StreamExecutionUpdates(t) ==
  /\ Depth(t) > 0 /\ Top(t).fn = "stream_execution_updates"
  /\ cur = (IF Top(t).pc = "start" THEN t ELSE NoTask)
  /\ CASE Top(t).pc = "start" ->
           LET connection == IF Truthy(_websocket_connection)
                               THEN _websocket_connection
                               ELSE _connect_websocket(_websocket_connection)
           IN /\ _websocket_connection' = connection
              /\ IF connection = None
                   THEN /\ Finish(t, Raise(Err("AttributeError",
                               "'NoneType' object has no attribute 'emit'")))
                        /\ UNCHANGED emitted
                   ELSE /\ emitted' = Append(emitted, Emit("subscribe", Top(t).path))
                        /\ Suspend(t, [Top(t) EXCEPT !.pc = "listen"])
       [] OTHER ->
           IF MessageExecutionId(_websocket_message_stream) = Top(t).path
             THEN /\ emitted' = IF Truthy(_websocket_connection)
                                  THEN Append(emitted, Emit("unsubscribe", Top(t).path))
                                  ELSE emitted
                  /\ stack' = [stack EXCEPT ![t] = Pop(@)]
                  /\ ret' = [ret EXCEPT ![t] = Raise(Err("ValidationError", "data"))]
                  /\ UNCHANGED <<cur, _websocket_connection>>
             ELSE UNCHANGED <<stack, ret, cur, stream_vars>>
  /\ UNCHANGED <<cfg, max_retries, retry_delay, utc_offset, tasks, exc_vars,
                 client_state, tok, now, op, logs, counters, logged_out,
                 mgr_in, mgr_out, instr, wait>>

\* ------------------------------------------------------ client.py: close
CallClose(t) == Begin(t, "close", Frame("close"))

\* lines 425-426: an open client tears the HTTP client down first
CloseStart(t) ==
  /\ Running(t, "close", "start")
  /\ IF ~closed
       THEN /\ http_closed' = TRUE
            /\ Suspend(t, [Top(t) EXCEPT !.pc = "aclose"])
       ELSE /\ Finish(t, RetVoid)
            /\ UNCHANGED http_closed
  /\ UNCHANGED <<config_vars, closed, ws_closed, tok, now, op, logs, counters>>

\* line 427: then the websocket
CloseWebsocket(t) ==
  /\ cur = NoTask /\ Depth(t) > 0
  /\ Top(t).fn = "close" /\ Top(t).pc = "aclose"
  /\ ws_closed' = TRUE
  /\ Suspend(t, [Top(t) EXCEPT !.pc = "wsclose"])
  /\ UNCHANGED <<config_vars, closed, http_closed, tok, now, op, logs, counters>>

\* line 428: and only then sets the flag
CloseDone(t) ==
  /\ cur = NoTask /\ Depth(t) > 0
  /\ Top(t).fn = "close" /\ Top(t).pc = "wsclose"
  /\ closed' = TRUE
  /\ Finish(t, RetVoid)
  /\ UNCHANGED <<config_vars, http_closed, ws_closed, tok, now, op, logs, counters>>

\* ------------------------------------------------------------ the clock
\* wall-clock time passes while no task holds the event loop
Tick ==
  /\ cur = NoTask
  /\ nticks < MaxTicks
  /\ nticks' = nticks + 1
  /\ now' = now + TickSeconds
  /\ UNCHANGED <<config_vars, client_state, tok, stack, ret, op, logs, cur, nops>>

Next ==
  \/ Tick
  \/ \E t \in Tasks :
       \/ CallRequest(t)
       \/ CallGetAuthHeaders(t)
       \/ CallAuthenticate(t)
       \/ CallClose(t)
       \/ RequestStart(t)
       \/ RequestAuth(t)
       \/ TransportResponds(t)
       \/ TransportFails(t)
       \/ SleepEnds(t)
       \/ GetAuthHeadersStart(t)
       \/ GetAuthHeadersRefreshed(t)
       \/ RefreshStart(t)
       \/ RefreshResponse(t)
       \/ AuthenticateStart(t)
       \/ LoginStart(t)
       \/ LoginResponse(t)
       \/ ValidateStart(t)
       \/ ValidateResponse(t)
       \/ CallLogout(t)
       \/ LogoutStart(t)
       \/ LogoutResponse(t)
       \/ CallStreamExecutionUpdates(t)
       \/ StreamExecutionUpdates(t)
       \/ CloseStart(t)
       \/ CloseWebsocket(t)
       \/ CloseDone(t)

Spec == Init /\ [][Next]_vars

\* ------------------------------------- create_http_exception on its own
\* the status codes a call is made with
StatusCodes == MinStatus..MaxStatus
RateHeaderNames ==
  {"retry-after", "x-ratelimit-limit", "x-ratelimit-remaining", "x-ratelimit-reset"}
\* header values tried: "30", "5", "0", "-1", "abc", "" and "1.5"
HeaderValues ==
  { <<"3", "0">>, <<"5">>, <<"0">>, <<"-", "1">>, <<"a", "b", "c">>, <<>>,
    <<"1", ".", "5">> }
\* response.headers: any of the four headers, each with any of the values
HeaderMaps == UNION { [S -> HeaderValues] : S \in SUBSET RateHeaderNames }

\* a constructed client that makes no call, and the arguments of one call of
\* the function: any status code without a response or with bare headers,
\* and 400, 429 and 503 with every combination of the rate-limit headers
ErrInit ==
  /\ cfg = AuthConfig("k1", None, None, None, None)
  /\ max_retries = 0 /\ retry_delay = 1 /\ utc_offset = 0
  /\ tasks = {}
  /\ closed = FALSE /\ http_closed = FALSE /\ ws_closed = FALSE
  /\ tok = NoTokens
  /\ now = 0
  /\ stack = [t \in Tasks |-> <<>>]
  /\ ret = [t \in Tasks |-> NoRet]
  /\ op = [t \in Tasks |-> NoOp]
  /\ calls = [t \in Tasks |-> <<>>]
  /\ sleeps = [t \in Tasks |-> <<>>]
  /\ auths = [t \in Tasks |-> 0]
  /\ refreshes = [t \in Tasks |-> 0]
  /\ cur = NoTask
  /\ nops = 0 /\ nticks = 0
  /\ http_exc = NoErr
  /\ _websocket_connection = None /\ emitted = <<>>
  /\ logged_out = None
  /\ SideIdle
  /\ http_in \in [status_code : StatusCodes,
                  response : {NoResponse, HttpResponse(EmptyDict)}]
                \cup [status_code : {400, 429, 503},
                      response : {HttpResponse(h) : h \in HeaderMaps}]

CreateHttpException ==
  /\ http_exc = NoErr
  /\ http_exc' = create_http_exception(http_in.status_code, http_in.response)
  /\ UNCHANGED <<cfg, max_retries, retry_delay, utc_offset, tasks, http_in,
                 stream_vars, client_state, tok, now, stack, ret, op, logs,
                 cur, counters, logged_out, mgr_in, mgr_out, instr, wait>>

ErrNext == CreateHttpException
ErrSpec == ErrInit /\ [][ErrNext]_vars

\* --------------------------------- requests and close() on two tasks
\* a client with a static API key shared by two tasks that make requests
\* and close it, in every interleaving the event loop allows
CloseInit ==
  /\ cfg = AuthConfig("k1", None, None, None, None)
  /\ max_retries = 2 /\ retry_delay = 1 /\ utc_offset = 0
  /\ tasks = Tasks
  /\ closed = FALSE /\ http_closed = FALSE /\ ws_closed = FALSE
  /\ tok = NoTokens
  /\ now = 0
  /\ stack = [t \in Tasks |-> <<>>]
  /\ ret = [t \in Tasks |-> NoRet]
  /\ op = [t \in Tasks |-> NoOp]
  /\ calls = [t \in Tasks |-> <<>>]
  /\ sleeps = [t \in Tasks |-> <<>>]
  /\ auths = [t \in Tasks |-> 0]
  /\ refreshes = [t \in Tasks |-> 0]
  /\ cur = NoTask
  /\ nops = 0 /\ nticks = 0
  /\ http_in = NoHttpIn /\ http_exc = NoErr
  /\ _websocket_connection = None /\ emitted = <<>>
  /\ logged_out = None
  /\ SideIdle

CloseNext ==
  \E t \in Tasks :
    \/ CallRequest(t)
    \/ CallClose(t)
    \/ RequestStart(t)
    \/ RequestAuth(t)
    \/ TransportResponds(t)
    \/ TransportFails(t)
    \/ SleepEnds(t)
    \/ GetAuthHeadersStart(t)
    \/ CloseStart(t)
    \/ CloseWebsocket(t)
    \/ CloseDone(t)

CloseSpec == CloseInit /\ [][CloseNext]_vars

\* str.lower()
lower(s) ==
  LET UpperCase == <<"A", "B", "C", "D", "E", "F", "G", "H", "I", "J", "K", "L", "M", "N", "O", "P", "Q", "R", "S", "T", "U", "V", "W", "X", "Y", "Z">>
      LowerCase == <<"a", "b", "c", "d", "e", "f", "g", "h", "i", "j", "k", "l", "m", "n", "o", "p", "q", "r", "s", "t", "u", "v", "w", "x", "y", "z">>
  IN [i \in 1..Len(s) |->
        IF \E k \in 1..26 : UpperCase[k] = s[i]
          THEN LowerCase[CHOOSE k \in 1..26 : UpperCase[k] = s[i]]
          ELSE s[i]]

\* "sub in s"
Contains(s, sub) ==
  \E i \in 0..(Len(s) - Len(sub)) : SubSeq(s, i + 1, i + Len(sub)) = sub

RECURSIVE str_int(_)
\* str(n) of a non-negative integer
str_int(n) ==
  LET digit == <<"0", "1", "2", "3", "4", "5", "6", "7", "8", "9">>
  IN IF n < 10 THEN <<digit[n + 1]>>
     ELSE str_int(n \div 10) \o <<digit[(n % 10) + 1]>>

\* the default error_code of each exception class (None for the base class)
DefaultErrorCode(type) ==
  CASE type = "KlikkFlowError" -> NoText
    [] type = "AuthenticationError" -> <<"A", "U", "T", "H", "_", "F", "A", "I", "L", "E", "D">>
    [] type = "AuthorizationError" -> <<"A", "U", "T", "H", "_", "I", "N", "S", "U", "F", "F", "I", "C", "I", "E", "N", "T", "_", "P", "E", "R", "M", "I", "S", "S", "I", "O", "N", "S">>
    [] type = "ValidationError" -> <<"V", "A", "L", "I", "D", "A", "T", "I", "O", "N", "_", "E", "R", "R", "O", "R">>
    [] type = "NetworkError" -> <<"N", "E", "T", "W", "O", "R", "K", "_", "E", "R", "R", "O", "R">>
    [] type = "RateLimitError" -> <<"R", "A", "T", "E", "_", "L", "I", "M", "I", "T", "_", "E", "X", "C", "E", "E", "D", "E", "D">>
    [] type = "WorkflowNotFoundError" -> <<"W", "O", "R", "K", "F", "L", "O", "W", "_", "N", "O", "T", "_", "F", "O", "U", "N", "D">>
    [] OTHER -> NoText

\* an exception instance of the SDK: its class, message, error_code, and the
\* workflow_id a WorkflowNotFoundError carries
ApiErr(type, message, workflow_id) ==
  [type |-> type, message |-> message, error_code |-> DefaultErrorCode(type),
   workflow_id |-> workflow_id]

\* KlikkFlowError.__str__
str(e) ==
  IF e.error_code # NoText
    THEN <<"[">> \o e.error_code \o <<"]", " ">> \o e.message
    ELSE e.message

\* WorkflowNotFoundError(workflow_id): the default message names the id
WorkflowNotFoundError(workflow_id) ==
  ApiErr("WorkflowNotFoundError",
         <<"W", "o", "r", "k", "f", "l", "o", "w", " ", "w", "i", "t", "h", " ", "I", "D", " ", "'">> \o workflow_id \o <<"'", " ", "n", "o", "t", " ", "f", "o", "u", "n", "d">>, workflow_id)

\* what a manager method gives its caller, and the client calls it made
MgrReturn(value, requests) ==
  [value |-> value, kind |-> "return", err |-> NoApiErr, requests |-> requests]
MgrRaise(e, requests) ==
  [value |-> None, kind |-> "raise", err |-> e, requests |-> requests]

\* client.py _handle_error_response: the message is error.message of a JSON
\* body, response.text when the body has none, and "HTTP <status>: <text>"
\* when the body is not JSON
_handle_error_response(answer) ==
  LET message ==
        IF answer.json_ok
          THEN IF answer.error_message # NoText THEN answer.error_message
                                                ELSE answer.text
          ELSE <<"H", "T", "T", "P", " ">> \o str_int(answer.status) \o <<":", " ">> \o answer.text
  IN ApiErr(HTTP_EXCEPTION_MAP(answer.status), message, NoText)


\* a translation that fires on any error whatever its text
IsNotFoundAlways(e) == TRUE

\* "not found" in str(e).lower()
IsNotFound(e) == Contains(lower(str(e)), <<"n", "o", "t", " ", "f", "o", "u", "n", "d">>)

\* the handler "except KlikkFlowError as e" of get, update, delete, duplicate
Translate(e, workflow_id, requests) ==
  IF e.type \in {"KeyError"}
    THEN MgrRaise(e, requests)
    ELSE IF IsNotFound(e) THEN MgrRaise(WorkflowNotFoundError(workflow_id), requests)
                          ELSE MgrRaise(e, requests)

WorkflowPath(workflow_id) == <<"/", "w", "o", "r", "k", "f", "l", "o", "w", "s", "/">> \o workflow_id
Request(method, path, params) == [path |-> path, method |-> method, params |-> params]



\* lines 135-147
workflows_get(workflow_id, answer) ==
  LET requests == <<Request("GET", WorkflowPath(workflow_id), EmptyDict)>>
  IN IF ~is_success(answer.status)
       THEN Translate(_handle_error_response(answer), workflow_id, requests)
       ELSE IF ~answer.success
         THEN Translate(ApiErr("KlikkFlowError",
                               (IF answer.message # NoText THEN answer.message
                                ELSE <<"F", "a", "i", "l", "e", "d", " ", "t", "o", " ", "g", "e", "t", " ", "w", "o", "r", "k", "f", "l", "o", "w">>), NoText),
                        workflow_id, requests)
         ELSE MgrReturn("WorkflowDefinition", requests)

\* lines 276-293
workflows_update(workflow_id, answer) ==
  LET requests == <<Request("PUT", WorkflowPath(workflow_id), EmptyDict)>>
  IN IF ~is_success(answer.status)
       THEN Translate(_handle_error_response(answer), workflow_id, requests)
       ELSE IF ~answer.success
         THEN IF /\ answer.error_code # NoText
                 /\ Contains(lower(answer.error_code), <<"v", "a", "l", "i", "d", "a", "t", "i", "o", "n">>)
                THEN IF answer.error_message = NoText
                       THEN MgrRaise(ApiErr("KeyError", <<"m", "e", "s", "s", "a", "g", "e">>, NoText), requests)
                       ELSE Translate(ApiErr("ValidationError", answer.error_message, NoText),
                                      workflow_id, requests)
                ELSE Translate(ApiErr("KlikkFlowError",
                                      (IF answer.message # NoText THEN answer.message
                                ELSE <<"F", "a", "i", "l", "e", "d", " ", "t", "o", " ", "u", "p", "d", "a", "t", "e", " ", "w", "o", "r", "k", "f", "l", "o", "w">>), NoText),
                               workflow_id, requests)
         ELSE MgrReturn("WorkflowDefinition", requests)

\* lines 316-325
workflows_delete(workflow_id, answer) ==
  LET requests == <<Request("DELETE", WorkflowPath(workflow_id), EmptyDict)>>
  IN IF ~is_success(answer.status)
       THEN Translate(_handle_error_response(answer), workflow_id, requests)
       ELSE MgrReturn(IF answer.success THEN "True" ELSE "False", requests)

\* lines 408-424
workflows_duplicate(workflow_id, answer) ==
  LET requests == <<Request("POST", WorkflowPath(workflow_id) \o <<"/", "d", "u", "p", "l", "i", "c", "a", "t", "e">>, EmptyDict)>>
  IN IF ~is_success(answer.status)
       THEN Translate(_handle_error_response(answer), workflow_id, requests)
       ELSE IF ~answer.success
         THEN Translate(ApiErr("KlikkFlowError",
                               (IF answer.message # NoText THEN answer.message
                                ELSE <<"F", "a", "i", "l", "e", "d", " ", "t", "o", " ", "d", "u", "p", "l", "i", "c", "a", "t", "e", " ", "w", "o", "r", "k", "f", "l", "o", "w">>), NoText),
                        workflow_id, requests)
         ELSE MgrReturn("WorkflowDefinition", requests)

\* a parameter dictionary without the sort keys
ListParamsNoSort(args) ==
  [k \in {"page", "per_page"} \cup (IF args.active # None THEN {"active"} ELSE {}) |->
     CASE k = "page" -> args.page
       [] k = "per_page" -> args.per_page
       [] k = "active" -> args.active]

\* lines 89-104: page, per_page, sort_by and sort_order always, active when
\* it is not None (tags and search are not passed in the calls modelled)
ListParams(args) ==
  [k \in {"page", "per_page", "sort_by", "sort_order"}
         \cup (IF args.active # None THEN {"active"} ELSE {}) |->
     CASE k = "page" -> args.page
       [] k = "per_page" -> args.per_page
       [] k = "sort_by" -> args.sort_by
       [] k = "sort_order" -> args.sort_order
       [] k = "active" -> args.active]

\* lines 106-113: no handler here; WorkflowDefinition(**item) raises for an
\* item that does not validate
workflows_list(args, answer) ==
  LET requests == <<Request("GET", <<"/", "w", "o", "r", "k", "f", "l", "o", "w", "s">>, ListParams(args))>>
  IN IF ~is_success(answer.status)
       THEN MgrRaise(_handle_error_response(answer), requests)
       ELSE IF \E i \in 1..Len(answer.items) : ~answer.items[i].valid
         THEN MgrRaise(ApiErr("pydantic.ValidationError", <<"i", "t", "e", "m">>, NoText), requests)
         ELSE MgrReturn([success |-> answer.success,
                         total_items |-> answer.total_items,
                         data |-> [i \in 1..Len(answer.items) |-> answer.items[i].id]],
                        requests)

\* 2xx answers to a call for one workflow
OkAnswers ==
  { Answer(200, TRUE, s, msg, c, em, <<>>, <<>>, 0) :
      s \in BOOLEAN, msg \in {NoText}
        \cup {<<"W", "o", "r", "k", "f", "l", "o", "w", " ", "N", "o", "t", " ", "F", "o", "u", "n", "d">>, <<"N", "O", "T", " ", "F", "O", "U", "N", "D">>, <<"N", "o", " ", "s", "u", "c", "h", " ", "w", "o", "r", "k", "f", "l", "o", "w">>, <<"n", "o", "t", "f", "o", "u", "n", "d">>, <<>>},
      c \in {NoText}
        \cup {<<"V", "A", "L", "I", "D", "A", "T", "I", "O", "N", "_", "F", "A", "I", "L", "E", "D">>, <<"C", "O", "N", "F", "L", "I", "C", "T">>}, em \in {<<"W", "o", "r", "k", "f", "l", "o", "w", " ", "N", "o", "t", " ", "F", "o", "u", "n", "d">>, <<"N", "o", " ", "s", "u", "c", "h", " ", "w", "o", "r", "k", "f", "l", "o", "w">>, NoText} }
\* non-2xx answers: a JSON body with or without error.message, or plain text
ErrorAnswers ==
  { Answer(st, j, FALSE, NoText, NoText, em, tx, <<>>, 0) :
      st \in {400, 404, 500, 503}, j \in BOOLEAN,
      em \in {<<"W", "o", "r", "k", "f", "l", "o", "w", " ", "N", "o", "t", " ", "F", "o", "u", "n", "d">>, <<"N", "O", "T", " ", "F", "O", "U", "N", "D">>, <<"N", "o", " ", "s", "u", "c", "h", " ", "w", "o", "r", "k", "f", "l", "o", "w">>, NoText}, tx \in {<<"N", "o", "t", " ", "F", "o", "u", "n", "d">>, <<"g", "o", "n", "e">>, <<>>} }
\* answers to list: pages of 0, 1, 2 and PageSize valid items, and a page
\* with an item that does not validate
ListAnswers ==
  { Answer(200, TRUE, TRUE, NoText, NoText, NoText, <<>>, [i \in 1..n |-> [valid |-> TRUE, id |-> i]], 57) :
      n \in {0, 1, 2, PageSize} }
    \cup { Answer(200, TRUE, TRUE, NoText, NoText, NoText, <<>>,
                  <<[valid |-> TRUE, id |-> 1], [valid |-> FALSE, id |-> 2]>>, 57) }
    \cup { a \in ErrorAnswers : a.status \in {404, 503} /\ a.json_ok /\ a.text = <<>> }

MgrInit ==
  /\ cfg = AuthConfig("k1", None, None, None, None)
  /\ max_retries = 0 /\ retry_delay = 1 /\ utc_offset = 0
  /\ tasks = {}
  /\ closed = FALSE /\ http_closed = FALSE /\ ws_closed = FALSE
  /\ tok = NoTokens
  /\ now = 0
  /\ stack = [t \in Tasks |-> <<>>]
  /\ ret = [t \in Tasks |-> NoRet]
  /\ op = [t \in Tasks |-> NoOp]
  /\ calls = [t \in Tasks |-> <<>>]
  /\ sleeps = [t \in Tasks |-> <<>>]
  /\ auths = [t \in Tasks |-> 0]
  /\ refreshes = [t \in Tasks |-> 0]
  /\ cur = NoTask
  /\ nops = 0 /\ nticks = 0
  /\ http_in = NoHttpIn /\ http_exc = NoErr
  /\ _websocket_connection = None /\ emitted = <<>>
  /\ logged_out = None
  /\ instr = NoInstr /\ wait = NoWait
  /\ mgr_out = NoMgrOut
  /\ mgr_in \in
       { [workflow_id |-> w, method |-> m, args |-> NoArgs, answer |-> a] :
           m \in {"get", "update", "delete", "duplicate"}, w \in {<<"w", "1">>, <<"w", "2">>},
           a \in OkAnswers \cup ErrorAnswers }
       \cup { [workflow_id |-> NoText, method |-> "list", args |-> g, answer |-> a] :
                g \in [page : {1, 2}, per_page : {PageSize, 50}, active : {"True", "False", None},
       sort_by : {<<"u", "p", "d", "a", "t", "e", "d", "_", "a", "t">>}, sort_order : {<<"d", "e", "s", "c">>}], a \in ListAnswers }

\* a manager method is called and the transport answers it
CallWorkflowManager ==
  /\ mgr_out.kind = "none"
  /\ mgr_out' =
       CASE mgr_in.method = "get" -> workflows_get(mgr_in.workflow_id, mgr_in.answer)
         [] mgr_in.method = "update" -> workflows_update(mgr_in.workflow_id, mgr_in.answer)
         [] mgr_in.method = "delete" -> workflows_delete(mgr_in.workflow_id, mgr_in.answer)
         [] mgr_in.method = "duplicate" ->
              workflows_duplicate(mgr_in.workflow_id, mgr_in.answer)
         [] OTHER -> workflows_list(mgr_in.args, mgr_in.answer)
  /\ UNCHANGED <<cfg, max_retries, retry_delay, utc_offset, tasks, exc_vars,
                 stream_vars, client_state, tok, now, stack, ret, op, logs,
                 cur, counters, logged_out, mgr_in, instr, wait>>

MgrNext == CallWorkflowManager
MgrSpec == MgrInit /\ [][MgrNext]_vars

\* ------------------------ klikkflow_instrumentation: KlikkFlowInstrumentor
\* instr.libraries: the instrumentor classes _instrument_libraries goes
\* through; _instrumentors: the tracked list; tracked: the tracked list when
\* _uninstrument was called; uninstrumented: the uninstrument() calls made;
\* failing: the positions of the tracked list whose uninstrument() raises;
\* warnings: the logger.warning calls; raised: an exception left the method.


RECURSIVE InstrumentLoop(_, _, _)
\* lines 351-361: each class is instantiated; one not yet instrumented is
\* instrumented and tracked; a failure is logged
InstrumentLoop(s, outcome, i) ==
  IF i > Len(s.libraries) THEN s
  ELSE InstrumentLoop(
         CASE outcome[i] = "instrumented" ->
                [s EXCEPT !._instrumentors = Append(@, s.libraries[i])]
           [] outcome[i] = "fails" ->
                [s EXCEPT !.warnings =
                            Append(@, <<"Failed to instrument", s.libraries[i]>>)]
           [] OTHER -> s,
         outcome, i + 1)
_instrument_libraries(s, outcome) ==
  [InstrumentLoop(s, outcome, 1) EXCEPT !.phase = "instrumented"]

\* a handler that lets the exception out of the loop
OnUninstrumentFailureRaises(s, name) == [s EXCEPT !.raised = TRUE]

\* lines 177-178: except Exception: logger.warning(...)
OnUninstrumentFailure(s, name) ==
  [s EXCEPT !.warnings = Append(@, <<"Failed to uninstrument", name>>)]

RECURSIVE UninstrumentLoop(_, _, _)
\* lines 174-178: uninstrument() is called on each tracked instrumentor in
\* turn; failing holds the positions whose call raises an Exception
UninstrumentLoop(s, failing, i) ==
  IF i > Len(s._instrumentors) \/ s.raised THEN s
  ELSE LET name == s._instrumentors[i]
           called == [s EXCEPT !.uninstrumented = Append(@, name)]
       IN UninstrumentLoop(IF i \in failing THEN OnUninstrumentFailure(called, name)
                                            ELSE called,
                           failing, i + 1)


\* lines 172-181
_uninstrument(s, failing) ==
  LET after == UninstrumentLoop([s EXCEPT !.tracked = s._instrumentors,
                                          !.failing = failing], failing, 1)
  IN IF after.raised THEN [after EXCEPT !.phase = "stopped"]
     ELSE [after EXCEPT !._instrumentors = <<>>, !.phase = "stopped"]

InstrInit ==
  /\ cfg = AuthConfig("k1", None, None, None, None)
  /\ max_retries = 0 /\ retry_delay = 1 /\ utc_offset = 0
  /\ tasks = {}
  /\ closed = FALSE /\ http_closed = FALSE /\ ws_closed = FALSE
  /\ tok = NoTokens
  /\ now = 0
  /\ stack = [t \in Tasks |-> <<>>]
  /\ ret = [t \in Tasks |-> NoRet]
  /\ op = [t \in Tasks |-> NoOp]
  /\ calls = [t \in Tasks |-> <<>>]
  /\ sleeps = [t \in Tasks |-> <<>>]
  /\ auths = [t \in Tasks |-> 0]
  /\ refreshes = [t \in Tasks |-> 0]
  /\ cur = NoTask
  /\ nops = 0 /\ nticks = 0
  /\ http_in = NoHttpIn /\ http_exc = NoErr
  /\ _websocket_connection = None /\ emitted = <<>>
  /\ logged_out = None
  /\ mgr_in = NoMgrIn /\ mgr_out = NoMgrOut /\ wait = NoWait
  /\ instr \in
       { [NoInstr EXCEPT
            !.libraries = <<"RequestsInstrumentor", "URLLibInstrumentor", "URLLib3Instrumentor">> \o o,
            !.phase = "new"] :
           o \in {<<>>, <<"HTTPXClientInstrumentor">>, <<"FastAPIInstrumentor">>,
                                 <<"HTTPXClientInstrumentor", "FastAPIInstrumentor">>} }


side_frame == <<cfg, max_retries, retry_delay, utc_offset, tasks, exc_vars,
                stream_vars, client_state, tok, now, stack, ret, op, logs,
                cur, counters, logged_out, mgr_in, mgr_out>>

\* _instrument (lines 154-170) reaches _instrument_libraries
InstrumentLibraries ==
  /\ instr.phase = "new"
  /\ \E outcome \in [1..Len(instr.libraries) -> {"instrumented", "already", "fails"}] :
       instr' = _instrument_libraries(instr, outcome)
  /\ UNCHANGED <<side_frame, wait>>

\* _uninstrument is called, also when nothing was instrumented
Uninstrument ==
  /\ instr.phase \in {"new", "instrumented"}
  /\ \E failing \in SUBSET (1..Len(instr._instrumentors)) :
       instr' = _uninstrument(instr, failing)
  /\ UNCHANGED <<side_frame, wait>>

InstrNext == InstrumentLibraries \/ Uninstrument
InstrSpec == InstrInit /\ [][InstrNext]_vars

\* ------------------------------------- executions.py, python-sdk client.py:
\* waiting for an execution.  wait.fn: the function called; timeout: its
\* argument; start_time, time: the loop's clock at the call and now; polls:
\* the get_execution calls made; last: the status the last one returned;
\* kind, err: how the wait ended.

\* types.py lines 32-39: the members of ExecutionStatus and their values
ExecutionStatus ==
  [n \in {"PENDING", "RUNNING", "SUCCESS", "ERROR", "CANCELLED", "WAITING"} |->
     CASE n = "PENDING" -> "pending"
       [] n = "RUNNING" -> "running"
       [] n = "SUCCESS" -> "success"
       [] n = "ERROR" -> "error"
       [] n = "CANCELLED" -> "cancelled"
       [] n = "WAITING" -> "waiting"]

\* executions.py line 507: the members the status is tested against
FinishedMembers == {"COMPLETED", "FAILED", "CANCELLED"}



WaitEnd(w, kind, err) == [w EXCEPT !.kind = kind, !.err = err, !.phase = "done"]


\* executions.py lines 504-513, one turn of the loop after get_execution
\* returned: the list of line 507 is built first, and a member the
\* enumeration does not have raises AttributeError
wait_for_execution_completion(w) ==
  IF \E n \in FinishedMembers : n \notin DOMAIN ExecutionStatus
    THEN WaitEnd(w, "raise", "AttributeError")
    ELSE IF w.last \in {ExecutionStatus[n] : n \in FinishedMembers}
      THEN WaitEnd(w, "return", "None")
      ELSE IF /\ w.timeout # <<>> /\ w.timeout[1] # 0
              /\ (w.time - w.start_time) > w.timeout[1]
        THEN WaitEnd(w, "raise", "ExecutionError")
        ELSE [w EXCEPT !.phase = "sleeping"]

\* python-sdk client.py lines 232-239, one turn of the loop
_wait_for_execution(w) ==
  IF w.last \in {"success", "error", "cancelled"}
    THEN WaitEnd(w, "return", "None")
    ELSE [w EXCEPT !.phase = "sleeping"]


WaitInit ==
  /\ cfg = AuthConfig("k1", None, None, None, None)
  /\ max_retries = 0 /\ retry_delay = 1 /\ utc_offset = 0
  /\ tasks = {}
  /\ closed = FALSE /\ http_closed = FALSE /\ ws_closed = FALSE
  /\ tok = NoTokens
  /\ now = 0
  /\ stack = [t \in Tasks |-> <<>>]
  /\ ret = [t \in Tasks |-> NoRet]
  /\ op = [t \in Tasks |-> NoOp]
  /\ calls = [t \in Tasks |-> <<>>]
  /\ sleeps = [t \in Tasks |-> <<>>]
  /\ auths = [t \in Tasks |-> 0]
  /\ refreshes = [t \in Tasks |-> 0]
  /\ cur = NoTask
  /\ nops = 0 /\ nticks = 0
  /\ http_in = NoHttpIn /\ http_exc = NoErr
  /\ _websocket_connection = None /\ emitted = <<>>
  /\ logged_out = None
  /\ mgr_in = NoMgrIn /\ mgr_out = NoMgrOut /\ instr = NoInstr
  /\ wait \in
       { [NoWait EXCEPT !.fn = "wait_for_execution_completion", !.timeout = tm,
                        !.phase = "polling"] : tm \in {<<>>, <<0>>, <<1>>, <<2>>} }
       \cup { [NoWait EXCEPT !.fn = "_wait_for_execution", !.phase = "polling"] }


\* one get_execution and what the loop does with its result; the request
\* takes zero seconds or one
WaitPoll ==
  /\ wait.phase = "polling"
  /\ wait.polls < MaxPolls
  /\ \E took \in {0, 1} :
       LET polled == [wait EXCEPT !.time = @ + took, !.polls = @ + 1]
       IN \/ \E e \in (IF wait.fn = "wait_for_execution_completion"
                        THEN {"ExecutionNotFoundError", "KlikkFlowAPIError"}
                        ELSE {"ReporunnerError"}) :
               wait' = WaitEnd([polled EXCEPT !.last = "none"], "raise", e)
          \/ \E s \in {ExecutionStatus[n] : n \in DOMAIN ExecutionStatus} :
               wait' = IF wait.fn = "wait_for_execution_completion"
                         THEN wait_for_execution_completion([polled EXCEPT !.last = s])
                         ELSE _wait_for_execution([polled EXCEPT !.last = s])
  /\ UNCHANGED <<side_frame, instr>>

\* await asyncio.sleep(1)
WaitSleepEnds ==
  /\ wait.phase = "sleeping"
  /\ wait' = [wait EXCEPT !.time = @ + 1, !.phase = "polling"]
  /\ UNCHANGED <<side_frame, instr>>

WaitNext == WaitPoll \/ WaitSleepEnds
WaitSpec == WaitInit /\ [][WaitNext]_vars
\* ================================================================ claims
Done(t) == stack[t] = <<>> /\ op[t].name # "none"
NumCalls(t) == Len(calls[t])
LastCall(t) == calls[t][NumCalls(t)]
\* every transport call of the task's current top-level call has failed
AllFailed(t) == \A k \in 1..NumCalls(t) : calls[t][k].outcome = Failed
\* ... except that the last one may still be awaited
AllFailedSoFar(t) ==
  \A k \in 1..NumCalls(t) :
    calls[t][k].outcome = Failed \/ (k = NumCalls(t) /\ calls[t][k].outcome = Pending)
InRequest(t) ==
  Depth(t) > 0 /\ Top(t).fn = "_request" /\ Top(t).pc \in {"http", "sleep"}
\* logout has returned: what its invalidation call raised is swallowed (C13)
Swallowed(t) == Done(t) /\ op[t].name = "logout"

\* C1: when every transport attempt of a request fails with a transport
\* error, the attempts number max_retries + 1, the i-th sleep (i = 1, 2, ...)
\* lasts retry_delay * 2^(i-1) and falls between attempt i and attempt i+1,
\* no sleep follows the last attempt, and the request raises NetworkError.
C1_RetryBackoff ==
  \A t \in Tasks :
    (NumCalls(t) > 0 /\ AllFailedSoFar(t)) =>
      /\ NumCalls(t) <= max_retries + 1
      /\ \A i \in 1..Len(sleeps[t]) : sleeps[t][i] = retry_delay * (2 ^ (i - 1))
      /\ Len(sleeps[t]) =
           IF LastCall(t).outcome = Failed /\ NumCalls(t) < max_retries + 1
             THEN NumCalls(t) ELSE NumCalls(t) - 1
      /\ (AllFailed(t) /\ NumCalls(t) < max_retries + 1) =>
           (InRequest(t) /\ Top(t).pc = "sleep")
      /\ (AllFailed(t) /\ NumCalls(t) = max_retries + 1) =>
           /\ ~InRequest(t)
           /\ ~Swallowed(t) => ret[t] = Raise(Err("NetworkError", "Request failed"))

C1_Witness ==
  \E t \in Tasks :
    /\ Done(t) /\ op[t].name = "_request"
    /\ max_retries = 2 /\ retry_delay = 3
    /\ NumCalls(t) = 3 /\ AllFailed(t)
    /\ sleeps[t] = <<3, 6>>
    /\ ret[t].kind = "raise" /\ ret[t].err.type = "NetworkError"

\* the error kind the status table of the specification gives a status code
TableKind(status) ==
  CASE status = 400 -> "ValidationError"
    [] status = 401 -> "AuthenticationError"
    [] status = 403 -> "AuthorizationError"
    [] status \in {404, 500} -> "KlikkFlowError"
    [] status = 429 -> "RateLimitError"
    [] OTHER -> "NetworkError"

IsNon2xx(o) == o.kind = "response" /\ ~(o.status >= 200 /\ o.status <= 299)
Is2xx(o) == o.kind = "response" /\ o.status >= 200 /\ o.status <= 299

\* C2: a non-2xx response ends the request: it is the last transport call,
\* no sleep follows it, and the request raises the error of the table's kind
\* for that status, which then reaches the caller unchanged.
C2_Non2xxEndsRequest ==
  \A t \in Tasks : \A k \in 1..NumCalls(t) :
    IsNon2xx(calls[t][k].outcome) =>
      /\ k = NumCalls(t)
      /\ Len(sleeps[t]) = k - 1
      /\ ~InRequest(t)
      /\ ~Swallowed(t) =>
           /\ ret[t].kind = "raise"
           /\ ret[t].err.status = calls[t][k].outcome.status
           /\ ret[t].err.type = TableKind(calls[t][k].outcome.status)

C2_Witness ==
  \E t \in Tasks :
    /\ Done(t) /\ op[t].name = "_request"
    /\ max_retries = 2
    /\ NumCalls(t) = 2
    /\ calls[t][1].outcome = Failed
    /\ calls[t][2].outcome = Answered(503)
    /\ Len(sleeps[t]) = 1
    /\ ret[t].kind = "raise" /\ ret[t].err.type = "NetworkError"

\* C3: a 2xx response ends the request: it is the last transport call, no
\* sleep follows it, and a request made by the caller returns that response.
C3_SuccessReturnsAtOnce ==
  \A t \in Tasks : \A k \in 1..NumCalls(t) :
    Is2xx(calls[t][k].outcome) =>
      /\ k = NumCalls(t)
      /\ Len(sleeps[t]) = k - 1
      /\ ~InRequest(t)
      /\ op[t].name = "_request" =>
           /\ Done(t)
           /\ ret[t].kind = "return"
           /\ ret[t].resp.status = calls[t][k].outcome.status

C3_Witness ==
  \E t \in Tasks :
    /\ Done(t) /\ op[t].name = "_request"
    /\ max_retries = 2
    /\ NumCalls(t) = 2
    /\ calls[t][1].outcome = Failed
    /\ calls[t][2].outcome = Answered(204)
    /\ Len(sleeps[t]) = 1
    /\ ret[t].kind = "return" /\ ret[t].resp.status = 204
\* C4 as claimed: get_auth_headers is resolved again before every retry, so
\* by its k-th transport call a request has resolved its headers k times.
C4_Original ==
  \A t \in Tasks : NumCalls(t) <= auths[t]

\* C4 as amended: the headers are resolved once, before the attempt loop;
\* every retry sends the headers of the first attempt, whatever has become
\* of Token State and of the token's expiry in between.
C4_HeadersResolvedOnce ==
  \A t \in Tasks :
    /\ \A k \in 1..NumCalls(t) : calls[t][k].headers = calls[t][1].headers
    /\ (op[t].name = "_request" /\ NumCalls(t) >= 1) => auths[t] = 1

\* a retry goes out with the old token although the token has meanwhile
\* entered the refresh window
C4_Witness ==
  \E t \in Tasks :
    /\ op[t].name = "_request" /\ InRequest(t) /\ Top(t).pc = "http"
    /\ NumCalls(t) = 2
    /\ AuthMethod = "access_token" /\ _token_needs_refresh
    /\ ~(op[t].now + 300 >= tok.expires[1])
    /\ calls[t][2].headers["Authorization"] = <<"Bearer", tok.access>>

\* C5: on a closed client the first step of every _request raises the
\* client-closed error: no auth headers are resolved, no transport call made.
C5_ClosedRejects ==
  [][ \A t \in Tasks :
        (closed /\ Running(t, "_request", "start")) =>
          /\ stack'[t] = SubSeq(stack[t], 1, Len(stack[t]) - 1)
          /\ ret'[t].kind = "raise"
          /\ ret'[t].err.type = "KlikkFlowError"
          /\ ret'[t].err.msg = "Client has been closed"
          /\ calls'[t] = calls[t]
          /\ auths'[t] = auths[t] ]_vars

C5_Witness ==
  \E t \in Tasks :
    /\ closed /\ Done(t) /\ op[t].name = "_request"
    /\ ret[t].kind = "raise" /\ ret[t].err.msg = "Client has been closed"
    /\ NumCalls(t) = 0 /\ auths[t] = 0

\* C6: every header a request sends has the auth value if the auth headers
\* have its key, else the caller's value if the caller's headers have it,
\* else the default; Authorization is always the auth provider's.
C6_HeaderPrecedence ==
  \A t \in Tasks :
    InRequest(t) =>
      LET auth == Top(t).auth_headers
          caller == Top(t).hdrs
          default == _get_default_headers
      IN \A k \in 1..NumCalls(t) :
           LET h == calls[t][k].headers
           IN /\ DOMAIN h = (DOMAIN default) \cup (DOMAIN caller) \cup (DOMAIN auth)
              /\ \A key \in DOMAIN h :
                   h[key] = IF key \in DOMAIN auth THEN auth[key]
                            ELSE IF key \in DOMAIN caller THEN caller[key]
                            ELSE default[key]
              /\ "Authorization" \in DOMAIN auth
              /\ h["Authorization"][1] \in {"Bearer", "Basic"}
              /\ h["Authorization"] # <<"Bearer", "evil">>

C6_Witness ==
  \E t \in Tasks :
    /\ InRequest(t) /\ NumCalls(t) = 1
    /\ "Authorization" \in DOMAIN Top(t).hdrs
    /\ Top(t).hdrs["Authorization"] = <<"Bearer", "evil">>
    /\ calls[t][1].headers["Authorization"] = <<"Bearer", "k1">>
    /\ calls[t][1].headers["Accept"] = <<"text/plain">>
    /\ calls[t][1].headers["User-Agent"] = UserAgent
\* Token State and the clock as they were when the task's call began
Pre(t) == op[t].tok
InWindowAtCall(t) ==
  /\ Truthy(Pre(t).access) /\ Pre(t).expires # NoTime
  /\ op[t].now + 300 >= Pre(t).expires[1]
AuthorizationOnly(value) == [key \in {"Authorization"} |-> value]
RefreshEndpointCalls(t) ==
  Cardinality({k \in 1..NumCalls(t) : calls[t][k].path = "/auth/refresh"})

\* C7: get_auth_headers answers with one Authorization header: Bearer of the
\* static API key if there is one; else Bearer of the access token if there
\* is one (or AuthenticationError from a refresh that failed, never the basic
\* credentials); else Basic of user name and password if both are there;
\* else it raises AuthenticationError and returns no headers.
C7_AuthPrecedence ==
  \A t \in Tasks :
    (Done(t) /\ op[t].name = "get_auth_headers") =>
      IF Truthy(cfg.api_key)
        THEN ret[t] = RetHeaders(AuthorizationOnly(<<"Bearer", cfg.api_key>>))
      ELSE IF Truthy(cfg.access_token) \/ Truthy(Pre(t).access)
        THEN \/ /\ ret[t].kind = "return"
                /\ ret[t].hdrs = AuthorizationOnly(
                     <<"Bearer", IF Truthy(tok.access) THEN tok.access
                                                      ELSE cfg.access_token>>)
             \/ /\ ret[t].kind = "raise"
                /\ ret[t].err.type = "AuthenticationError"
                /\ ret[t].hdrs = EmptyDict
                /\ refreshes[t] >= 1
      ELSE IF Truthy(cfg.username) /\ Truthy(cfg.password)
        THEN ret[t] = RetHeaders(AuthorizationOnly(
                        <<"Basic", "b64", cfg.username, ":", cfg.password>>))
      ELSE /\ ret[t].kind = "raise"
           /\ ret[t].err.type = "AuthenticationError"
           /\ ret[t].hdrs = EmptyDict

\* the access token wins over basic credentials that are configured too
C7_Witness ==
  \E t \in Tasks :
    /\ Done(t) /\ op[t].name = "get_auth_headers"
    /\ ~Truthy(cfg.api_key)
    /\ Truthy(cfg.username) /\ Truthy(cfg.password)
    /\ tok.access = "tA"
    /\ ret[t].kind = "return"
    /\ ret[t].hdrs = AuthorizationOnly(<<"Bearer", "tA">>)

\* C8 as claimed: on an open client, a get_auth_headers call that finds the
\* live token inside the 5-minute window and a refresh token present calls
\* the refresh endpoint exactly once and returns Bearer of the new token.
C8_Original ==
  \A t \in Tasks :
    ( /\ Done(t) /\ op[t].name = "get_auth_headers"
      /\ ~closed /\ ~http_closed
      /\ ~Truthy(cfg.api_key)
      /\ InWindowAtCall(t) /\ Truthy(Pre(t).refresh) ) =>
        /\ RefreshEndpointCalls(t) = 1
        /\ ret[t].kind = "return"
        /\ ret[t].hdrs = AuthorizationOnly(<<"Bearer", tok.access>>)

\* C9: with a live access token, get_auth_headers attempts a refresh exactly
\* when now + 5 minutes >= expiry; otherwise (and when no expiry is known)
\* it makes no refresh and no transport call, returns Bearer of the current
\* token and leaves Token State as it was.
C9_RefreshDecision ==
  \A t \in Tasks :
    ( /\ Done(t) /\ op[t].name = "get_auth_headers"
      /\ ~Truthy(cfg.api_key) /\ Truthy(Pre(t).access) ) =>
        IF Pre(t).expires # NoTime /\ op[t].now + 300 >= Pre(t).expires[1]
          THEN refreshes[t] >= 1
          ELSE /\ refreshes[t] = 0
               /\ NumCalls(t) = 0
               /\ ret[t] = RetHeaders(AuthorizationOnly(<<"Bearer", Pre(t).access>>))
               /\ tok = Pre(t)

\* the token expires 10 minutes after the call
C9_Witness ==
  \E t \in Tasks :
    /\ Done(t) /\ op[t].name = "get_auth_headers"
    /\ ~Truthy(cfg.api_key) /\ Truthy(Pre(t).access)
    /\ Pre(t).expires = <<op[t].now + 600>>
    /\ refreshes[t] = 0 /\ NumCalls(t) = 0
    /\ ret[t].kind = "return"

\* C10: when the token needs refreshing and Token State holds no refresh
\* token, get_auth_headers (called directly or by a request) raises
\* AuthenticationError, makes no transport call and leaves Token State as is.
C10_NoRefreshToken ==
  \A t \in Tasks :
    ( /\ Done(t) /\ op[t].name \in {"get_auth_headers", "_request"}
      /\ ~closed /\ ~Truthy(cfg.api_key)
      /\ InWindowAtCall(t) /\ ~Truthy(Pre(t).refresh) ) =>
        /\ ret[t].kind = "raise"
        /\ ret[t].err.type = "AuthenticationError"
        /\ ret[t].err.msg = "No refresh token available"
        /\ NumCalls(t) = 0
        /\ tok = Pre(t)

C10_Witness ==
  \E t \in Tasks :
    /\ Done(t) /\ op[t].name = "get_auth_headers"
    /\ ~Truthy(cfg.api_key)
    /\ InWindowAtCall(t) /\ Pre(t).refresh = None
    /\ ret[t].kind = "raise" /\ ret[t].err.type = "AuthenticationError"
    /\ NumCalls(t) = 0 /\ tok = Pre(t)
\* the Authorization header of the calls a request makes on its own path
OwnCalls(t) == {k \in 1..NumCalls(t) : calls[t][k].path = op[t].path}

\* C12 as claimed: a request that starts while Token State holds a live
\* access token sends Bearer of that token, whatever the static fields are.
C12_Original ==
  \A t \in Tasks :
    (op[t].name = "_request" /\ Truthy(Pre(t).access)) =>
      \A k \in OwnCalls(t) :
        /\ calls[t][k].headers["Authorization"][1] = "Bearer"
        /\ calls[t][k].headers["Authorization"][2] \in {Pre(t).access, tok.access}

\* C12 as amended: a static API key always drives the request, live token or
\* not; without one, a live access token takes precedence over the static
\* access token and over user name and password.
C12_LiveTokenPrecedence ==
  \A t \in Tasks :
    (op[t].name = "_request" /\ Truthy(Pre(t).access)) =>
      \A k \in OwnCalls(t) :
        calls[t][k].headers["Authorization"] =
          IF Truthy(cfg.api_key) THEN <<"Bearer", cfg.api_key>>
          ELSE <<"Bearer", Pre(t).access>>

\* a live token beside a static access token and basic credentials
C12_Witness ==
  \E t \in Tasks :
    /\ op[t].name = "_request" /\ NumCalls(t) >= 1
    /\ Pre(t).access = "tA"
    /\ cfg.access_token = "s1" /\ Truthy(cfg.username) /\ Truthy(cfg.password)
    /\ calls[t][1].headers["Authorization"] = <<"Bearer", "tA">>

C13_WitnessTyped ==
  \E t \in Tasks :
    /\ Done(t) /\ op[t].name = "logout"
    /\ Pre(t).access = "tA"
    /\ NumCalls(t) = 1 /\ calls[t][1].outcome = Answered(401)
    /\ ret[t] = RetVoid /\ tok = NoTokens

\* C14: when the login of authenticate() is answered 2xx with a body that
\* has access_token, Token State takes that access token, the body's
\* refresh_token if it has one, and as expiry the time of issue plus
\* expires_in whenever expires_in is there (expires_at or not); expires_at
\* sets the expiry only when expires_in is absent.
C14_LoginStoresTokens ==
  [][ \A t \in Tasks :
        LET body == ret[t].resp.body
        IN ( /\ Running(t, "_authenticate_with_credentials", "post")
             /\ ret[t].kind = "return"
             /\ body.json_ok /\ body.access_token # None ) =>
               /\ tok'.access = body.access_token
               /\ tok'.refresh = IF body.refresh_token # None
                                   THEN body.refresh_token ELSE tok.refresh
               /\ body.expires_in # Absent =>
                    tok'.expires = <<now + body.expires_in[1]>>
               /\ (body.expires_in = Absent /\ body.expires_at # Absent) =>
                    tok'.expires = <<body.expires_at[1] + utc_offset>>
               /\ (body.expires_in = Absent /\ body.expires_at = Absent) =>
                    tok'.expires = tok.expires
               /\ ret'[t] = RetResp(ret[t].resp) ]_vars

\* a login answered with both expires_in and expires_at
C14_Witness ==
  \E t \in Tasks :
    /\ Done(t) /\ op[t].name = "authenticate"
    /\ ret[t].kind = "return"
    /\ ret[t].resp.body = TokenBody("tA", "rA", <<240>>, <<600>>)
    /\ tok = [access |-> "tA", refresh |-> "rA", expires |-> <<now + 240>>]
    /\ tok.expires # <<600 + utc_offset>>

\* C15: for every HTTP status code create_http_exception returns an error
\* whose kind is the one the table gives it (400 ValidationError, 401
\* AuthenticationError, 403 AuthorizationError, 404 and 500 the generic base
\* error, 429 RateLimitError, 502/503/504 NetworkError), and NetworkError
\* for every code the table does not have, whatever the response argument.
C15_KindMatchesTable ==
  http_exc # NoErr =>
    /\ http_exc.type = TableKind(http_in.status_code)
    /\ http_in.status_code \notin {400, 401, 403, 404, 429, 500} =>
         http_exc.type = "NetworkError"
C15_Witness ==
  /\ http_in.status_code = 418 /\ http_in.response = NoResponse
  /\ http_exc.type = "NetworkError" /\ http_exc.status = 418

\* the value a rate-limit field has for a header value: the integer the
\* numeral denotes, unset for anything that is not an integer numeral
HeaderInt(v) ==
  CASE v = <<"3", "0">> -> <<30>>
    [] v = <<"5">> -> <<5>>
    [] v = <<"0">> -> <<0>>
    [] v = <<"-", "1">> -> <<0 - 1>>
    [] OTHER -> Unset
FieldOf(headers, hname) ==
  IF hname \in DOMAIN headers THEN HeaderInt(headers[hname]) ELSE Unset

\* C16: for a 429 response the error is a RateLimitError (the call returns,
\* whatever the header values), and each of retry_after, limit, remaining
\* and reset_time is the integer value of its own header when that header
\* is present and an integer numeral, unset when it is absent or anything
\* else, independently of the other three headers.
C16_RateLimitFields ==
  (http_exc # NoErr /\ http_in.status_code = 429 /\ http_in.response.present) =>
    /\ http_exc.type = "RateLimitError"
    /\ http_exc.rate.retry_after = FieldOf(http_in.response.headers, "retry-after")
    /\ http_exc.rate.limit = FieldOf(http_in.response.headers, "x-ratelimit-limit")
    /\ http_exc.rate.remaining =
         FieldOf(http_in.response.headers, "x-ratelimit-remaining")
    /\ http_exc.rate.reset_time =
         FieldOf(http_in.response.headers, "x-ratelimit-reset")
C16_Witness ==
  /\ http_in.status_code = 429
  /\ http_in.response.present
  /\ DOMAIN http_in.response.headers =
       {"retry-after", "x-ratelimit-limit", "x-ratelimit-remaining"}
  /\ http_in.response.headers["retry-after"] = <<"3", "0">>
  /\ http_in.response.headers["x-ratelimit-remaining"] = <<"5">>
  /\ http_in.response.headers["x-ratelimit-limit"] = <<"a", "b", "c">>
  /\ http_exc.type = "RateLimitError"
  /\ http_exc.rate = [retry_after |-> <<30>>, limit |-> Unset,
                      remaining |-> <<5>>, reset_time |-> Unset]

\* C17: for every AuthConfig that construction accepts, get_auth_headers
\* called with empty Token State resolves a method: it never raises the
\* AuthenticationError "No valid authentication method configured".
C17_Original ==
  \A t \in Tasks :
    (Done(t) /\ op[t].name = "get_auth_headers" /\ Pre(t) = NoTokens) =>
      ret[t] # Raise(Err("AuthenticationError",
                         "No valid authentication method configured"))

\* C19: stream_execution_updates subscribes before it yields any event:
\* once the consumer's request for the first event of an execution has been
\* answered, a subscribe for that execution has been sent, and the answer is
\* an event or the end of the sequence, never an error of the stream itself.
C19_Original ==
  \A t \in Tasks :
    (Done(t) /\ op[t].name = "stream_execution_updates") =>
      /\ \E i \in 1..Len(emitted) : emitted[i] = Emit("subscribe", op[t].path)
      /\ ret[t].kind = "return"

RefreshFrames(t) ==
  {i \in 1..Depth(t) : stack[t][i].fn = "_refresh_access_token"}

\* C26: the refresh request that get_auth_headers issues does not itself
\* re-enter the refresh check: no call chain of a task holds a second
\* _refresh_access_token nested inside the first, and no call ends by
\* exhausting the interpreter's recursion limit.
C26_Original ==
  \A t \in Tasks :
    /\ Cardinality(RefreshFrames(t)) <= 1
    /\ ret[t].err.type # "RecursionError"

\* the Authorization values the static configuration alone can produce
StaticCredentials ==
  (IF Truthy(cfg.api_key) THEN {<<"Bearer", cfg.api_key>>} ELSE {})
    \cup (IF Truthy(cfg.access_token) THEN {<<"Bearer", cfg.access_token>>} ELSE {})
    \cup (IF Truthy(cfg.username) /\ Truthy(cfg.password)
            THEN {<<"Basic", "b64", cfg.username, ":", cfg.password>>} ELSE {})

\* C27: once logout has returned, and until a login stores a new token, no
\* transport call of a later operation carries the access token that was
\* live before the logout (unless the static access_token has that value):
\* every such call carries a statically configured credential, and with no
\* static credential the operation fails with AuthenticationError.
C27_NoTokenAfterLogout ==
  \A t \in Tasks :
    (Truthy(logged_out) /\ op[t].name \notin {"logout", "none"}) =>
      /\ \A k \in 1..NumCalls(t) :
           /\ calls[t][k].headers["Authorization"] \in StaticCredentials
           /\ logged_out # cfg.access_token =>
                calls[t][k].headers["Authorization"] # <<"Bearer", logged_out>>
      /\ ( /\ StaticCredentials = {} /\ Done(t) /\ ~closed
           /\ op[t].name \in {"_request", "get_auth_headers"} ) =>
             /\ ret[t].kind = "raise"
             /\ ret[t].err.type = "AuthenticationError"
\* after a login and a logout a request goes out with the static token
C27_Witness ==
  \E t \in Tasks :
    /\ logged_out = "tA" /\ cfg.access_token = "s1"
    /\ Done(t) /\ op[t].name = "_request"
    /\ NumCalls(t) >= 1
    /\ calls[t][1].headers["Authorization"] = <<"Bearer", "s1">>

\* C28: a refresh is attempted only when Token State holds an access token
\* and an expiry: an operation in which _refresh_access_token is entered
\* began with both, and one that began with empty Token State (a client
\* with static credentials that never authenticated, with or without a
\* static refresh_token) attempts no refresh and calls no refresh endpoint.
C28_RefreshNeedsLiveToken ==
  \A t \in Tasks :
    /\ refreshes[t] >= 1 =>
         Truthy(Pre(t).access) /\ Pre(t).expires # NoTime
    /\ (op[t].name # "none" /\ Pre(t) = NoTokens) =>
         /\ refreshes[t] = 0
         /\ RefreshEndpointCalls(t) = 0
\* a client with a static access_token and a static refresh_token has made
\* a request that reached the transport without any refresh attempt
C28_Witness ==
  \E t \in Tasks :
    /\ cfg.access_token = "s1" /\ cfg.refresh_token = "r0"
    /\ ~Truthy(cfg.api_key)
    /\ Done(t) /\ op[t].name = "_request" /\ Pre(t) = NoTokens
    /\ NumCalls(t) >= 1
    /\ calls[t][1].headers["Authorization"] = <<"Bearer", "s1">>
    /\ refreshes[t] = 0

C30_Original ==
  \A t \in Tasks :
    (Done(t) /\ op[t].name = "_request") =>
      /\ ret[t] # Raise(Err("NetworkError", "Request failed after all retries"))
      /\ (~closed /\ ~http_closed /\ auths[t] = 1
            /\ ~(ret[t].kind = "raise" /\ ret[t].err.type = "AuthenticationError")) =>
           NumCalls(t) >= 1

\* ---------------------------------------------------------------- C21
\* the calls C21 is about: get, update or duplicate answered 2xx with a
\* false success flag
SuccessFalse ==
  /\ mgr_out.kind # "none"
  /\ mgr_in.method \in {"get", "update", "duplicate"}
  /\ is_success(mgr_in.answer.status)
  /\ ~mgr_in.answer.success
MentionsNotFound(text) == text # NoText /\ Contains(lower(text), <<"n", "o", "t", " ", "f", "o", "u", "n", "d">>)
DefaultMessage(method) ==
  CASE method = "get" -> <<"F", "a", "i", "l", "e", "d", " ", "t", "o", " ", "g", "e", "t", " ", "w", "o", "r", "k", "f", "l", "o", "w">>
    [] method = "update" -> <<"F", "a", "i", "l", "e", "d", " ", "t", "o", " ", "u", "p", "d", "a", "t", "e", " ", "w", "o", "r", "k", "f", "l", "o", "w">>
    [] OTHER -> <<"F", "a", "i", "l", "e", "d", " ", "t", "o", " ", "d", "u", "p", "l", "i", "c", "a", "t", "e", " ", "w", "o", "r", "k", "f", "l", "o", "w">>
\* what C21 says of a call: the not-found error with the requested id when
\* the message mentions "not found", else the generic error with the message
TranslatedByMessage ==
  /\ mgr_out.kind = "raise"
  /\ IF MentionsNotFound(mgr_in.answer.message)
       THEN mgr_out.err = WorkflowNotFoundError(mgr_in.workflow_id)
       ELSE mgr_out.err =
              ApiErr("KlikkFlowError",
                     IF mgr_in.answer.message # NoText THEN mgr_in.answer.message
                     ELSE DefaultMessage(mgr_in.method), NoText)
ValidationAnswer ==
  /\ mgr_in.method = "update"
  /\ mgr_in.answer.error_code # NoText
  /\ Contains(lower(mgr_in.answer.error_code), <<"v", "a", "l", "i", "d", "a", "t", "i", "o", "n">>)

C22_Original ==
  ( /\ mgr_out.kind # "none"
    /\ mgr_in.method \in {"get", "update", "delete", "duplicate"}
    /\ mgr_in.answer.status = 404 ) =>
      /\ mgr_out.kind = "raise"
      /\ mgr_out.err = WorkflowNotFoundError(mgr_in.workflow_id)

\* ---------------------------------------------------------------- C23
\* list(page=1, per_page=20, active=True) has been called and the server
\* has answered its request with a page
ListedFirstPage ==
  /\ mgr_out.kind # "none"
  /\ mgr_in.method = "list"
  /\ is_success(mgr_in.answer.status)
  /\ mgr_in.args.page = 1 /\ mgr_in.args.per_page = 20 /\ mgr_in.args.active = "True"
OneGetToWorkflows ==
  /\ Len(mgr_out.requests) = 1
  /\ mgr_out.requests[1].method = "GET"
  /\ mgr_out.requests[1].path = <<"/", "w", "o", "r", "k", "f", "l", "o", "w", "s">>
\* the page answered is returned item for item
OneItemPerServerItem ==
  (\A i \in 1..Len(mgr_in.answer.items) : mgr_in.answer.items[i].valid) =>
      /\ mgr_out.kind = "return"
      /\ Len(mgr_out.value.data) = Len(mgr_in.answer.items)
      /\ \A i \in 1..Len(mgr_in.answer.items) :
           mgr_out.value.data[i] = mgr_in.answer.items[i].id

\* C23 as stated: the call issues exactly one GET to /workflows whose query
\* parameters are exactly page=1, per_page=20 and active=true, and returns
\* one item per item the server returned.
C23_Original ==
  ListedFirstPage =>
    /\ OneGetToWorkflows
    /\ DOMAIN mgr_out.requests[1].params = {"page", "per_page", "active"}
    /\ OneItemPerServerItem

\* C23: the call issues exactly one GET to /workflows whose query parameters
\* are page=1, per_page=20 and active=true together with the defaults
\* sort_by=updated_at and sort_order=desc, and returns one item per item the
\* server returned.
C23_ListFirstPage ==
  ListedFirstPage =>
    /\ OneGetToWorkflows
    /\ DOMAIN mgr_out.requests[1].params =
         {"page", "per_page", "active", "sort_by", "sort_order"}
    /\ mgr_out.requests[1].params["page"] = 1
    /\ mgr_out.requests[1].params["per_page"] = 20
    /\ mgr_out.requests[1].params["active"] = "True"
    /\ mgr_out.requests[1].params["sort_by"] = <<"u", "p", "d", "a", "t", "e", "d", "_", "a", "t">>
    /\ mgr_out.requests[1].params["sort_order"] = <<"d", "e", "s", "c">>
    /\ OneItemPerServerItem
\* the server returned 20 items with total_items = 57
C23_Witness ==
  /\ ListedFirstPage
  /\ Len(mgr_in.answer.items) = 20
  /\ mgr_in.answer.total_items = 57
  /\ mgr_out.kind = "return"
  /\ Len(mgr_out.value.data) = 20
  /\ mgr_out.value.total_items = 57

\* ---------------------------------------------------------------- C24
Stopped == instr.phase = "stopped"
\* the warnings of _uninstrument, in the order they were logged
UninstrumentWarnings ==
  SelectSeq(instr.warnings, LAMBDA w : w[1] = "Failed to uninstrument")
RECURSIVE NamesAt(_, _, _)
\* the entries of a list at the positions of a set, in list order
NamesAt(list, positions, i) ==
  IF i > Len(list) THEN <<>>
  ELSE (IF i \in positions THEN <<list[i]>> ELSE <<>>) \o NamesAt(list, positions, i + 1)

\* C24: when _uninstrument has run, uninstrument() was called once on every
\* tracked instrumentor, in order, whichever of them failed; each failure was
\* logged as a warning and none left the method; the tracked list is empty.
C24_UninstrumentAll ==
  Stopped =>
    /\ instr.uninstrumented = instr.tracked
    /\ ~instr.raised
    /\ UninstrumentWarnings =
         [i \in 1..Cardinality(instr.failing) |->
            <<"Failed to uninstrument", NamesAt(instr.tracked, instr.failing, 1)[i]>>]
    /\ instr._instrumentors = <<>>
\* three instrumentors tracked; the first and the second fail, the third is
\* still uninstrumented
C24_Witness ==
  /\ Stopped
  /\ Len(instr.tracked) = 3
  /\ instr.failing = {1, 2}
  /\ Len(instr.uninstrumented) = 3
  /\ Len(UninstrumentWarnings) = 2
  /\ instr._instrumentors = <<>>

\* ---------------------------------------------------------------- C25
\* the statuses after which an execution does not change any more
TerminalStatuses == {"success", "error", "cancelled"}
WaitDone(fn) == wait.fn = fn /\ wait.phase = "done"
Elapsed == wait.time - wait.start_time
PolledStatus == wait.last # "none"

\* C25 as stated: wait_for_execution_completion returns the execution as
\* soon as a poll finds it in a terminal status; at a poll that finds a
\* non-terminal status after more than the given timeout it raises
\* ExecutionError; it never returns an execution in a non-terminal status.
C25_Original ==
  WaitDone("wait_for_execution_completion") =>
    /\ (PolledStatus /\ wait.last \in TerminalStatuses) => wait.kind = "return"
    /\ ( /\ PolledStatus /\ wait.last \notin TerminalStatuses
         /\ wait.timeout # <<>> /\ Elapsed > wait.timeout[1] ) =>
           wait.kind = "raise" /\ wait.err = "ExecutionError"
    /\ wait.kind = "return" => wait.last \in TerminalStatuses

\* the wait of the python-sdk client returns terminal executions only, and
\* returns at the first poll that finds one
SdkWaitReturnsTerminal ==
  WaitDone("_wait_for_execution") =>
    /\ (PolledStatus /\ wait.last \in TerminalStatuses) => wait.kind = "return"
    /\ wait.kind = "return" => wait.last \in TerminalStatuses
\* no wait_for_execution_completion ever returns or times out
NeverCompletes ==
  wait.fn = "wait_for_execution_completion" =>
    /\ wait.kind # "return"
    /\ wait.err # "ExecutionError"
    /\ wait.polls <= 1

====
